---- MODULE Spec2Model ----
(***************************************************************************)
(* A model of cjtoolkit-structured-validator: the rule primitives, the     *)
(* error collector / store protocol and the typed wrappers that compose    *)
(* them.  Where a file exists in both source trees the model follows       *)
(* src/cjtoolkit-structured-validator/src (the later one); the files that  *)
(* exist only under src/src are modelled from there.                       *)
(*                                                                         *)
(* Representation                                                          *)
(*   Option<T>        a set with at most one element: None == {},          *)
(*                    Some(x) == {x}                                       *)
(*   &str (subject)   a sequence of Unicode code points (integers)         *)
(*   String (message) a TLA+ string; format!() is \o and ToString          *)
(*   f64 / isize      [nan |-> BOOLEAN, n |-> Int]; nan is FALSE for every *)
(*                    integer type                                         *)
(*   Vec / Arc<[T]>   a sequence                                           *)
(***************************************************************************)
EXTENDS Integers, Sequences, FiniteSets, TLC

VARIABLES
    messages,   \* the ValidateErrorCollector the last operation worked on
    pre,        \* that collector as it was before the last operation
    call,       \* the last operation and its arguments
    result,     \* what the last operation returned
    phase,      \* "building" | "checked" | "consumed" | "restored": life
                \* of `messages`
    held,       \* the ValidateErrorStore the caller holds, if any
    flags       \* the FlagCounter and the flag of flag_error the caller
                \* holds, if any, with the Results passed to each so far

vars == <<messages, pre, call, result, phase, held, flags>>

-----------------------------------------------------------------------------
(* Bounds of the model *)

\* longest generated subject string, in code points
MaxStrLen == 2
\* most entries a caller pushes by hand before a rule check runs
MaxPush == 2
\* longest collector turned into a store for a store comparison
MaxStoreLen == 2
\* most Results passed to one FlagCounter, and to one flag of flag_error
MaxChecks == 3

-----------------------------------------------------------------------------
(* Option<T> *)

None == {}
Some(x) == {x}
is_some(o) == o # {}
is_none(o) == o = {}
unwrap(o) == CHOOSE x \in o : TRUE
unwrap_or(o, d) == IF o = {} THEN d ELSE unwrap(o)
Option(S) == {None} \cup {Some(x) : x \in S}

RECURSIVE SeqsUpTo(_, _)
SeqsUpTo(S, n) ==
    IF n = 0 THEN {<<>>}
    ELSE LET shorter == SeqsUpTo(S, n - 1)
         IN  shorter \cup {Append(s, x) : s \in shorter, x \in S}

-----------------------------------------------------------------------------
(* common/locale.rs, common/validation_collector.rs: collector and store *)

\* the pair (String, Box<dyn LocaleMessage>)
Error(message, cause) == [message |-> message, cause |-> cause]
\* a LocaleMessage object: its concrete type (and variant) and its payload
Cause(type, value) == [type |-> type, value |-> value]

ValidateErrorCollector_new == <<>>
is_empty(collector) == collector = <<>>
len(collector) == Len(collector)
\* a push that puts the new entry in front of the ones already held
push_front(collector, error) == <<error>> \o collector

push(collector, error) == Append(collector, error)

\* a conversion that hands the entries over last-pushed first
IntoStore_reversed(collector) ==
    [arc |-> [i \in 1..Len(collector) |-> collector[Len(collector) + 1 - i]]]
\* impl Into<ValidateErrorStore> for ValidateErrorCollector: Vec -> Arc<[_]>
IntoStore(collector) == [arc |-> collector]

\* impl Clone for ValidateErrorStore: Arc::clone of the shared slice
ValidateErrorStore_clone(store) == [arc |-> store.arc]

\* LocaleMessage::get_locale_data: an Arc<LocaleData> hands itself out, every
\* other message builds the LocaleData that describes it
get_locale_data(cause) ==
    IF cause.type = "Arc<LocaleData>" THEN cause
    ELSE Cause("Arc<LocaleData>", cause)

\* impl Into<ValidateErrorCollector> for ValidateErrorStore
RECURSIVE IntoCollector_loop(_, _, _)
IntoCollector_loop(errors, arc, i) ==
    IF i > Len(arc) THEN errors
    ELSE IntoCollector_loop(
             push(errors, Error(arc[i].message, get_locale_data(arc[i].cause))),
             arc, i + 1)
IntoCollector(store) == IntoCollector_loop(<<>>, store.arc, 1)

as_validate_error_collector(store) == IntoCollector(ValidateErrorStore_clone(store))

as_original_message_vec(store) ==
    [i \in 1..Len(store.arc) |-> store.arc[i].message]

\* blake3 over the bytes fed by hasher.update(), message after message.  The
\* digest is modelled as the byte stream that was fed (blake3 taken as
\* injective on it).
RECURSIVE hash_update(_, _, _)
hash_update(hasher, arc, i) ==
    IF i > Len(arc) THEN hasher
    ELSE hash_update(hasher \o arc[i].message, arc, i + 1)

hash(store) == hash_update("", store.arc, 1)

\* an equality that compares the entries, causes included
StoreEq_by_entries(a, b) == a.arc = b.arc
\* impl PartialEq for ValidateErrorStore
StoreEq(a, b) == hash(a) = hash(b)

-----------------------------------------------------------------------------
(* common/validation_check.rs *)

Ok(v) == [tag |-> "Ok", value |-> v]
Err(e) == [tag |-> "Err", error |-> e]
NoResult == [tag |-> "None"]
Unit == "()"

\* XError(pub ValidateErrorStore): validate_new of every typed error
validate_new(type, store) == [type |-> type, store |-> store]

\* a validate_check that keeps only the first entry
validate_check_first_only(type, collector) ==
    IF is_empty(collector)
    THEN Ok(Unit)
    ELSE Err(validate_new(type, IntoStore(<<collector[1]>>)))
validate_check(type, collector) ==
    IF is_empty(collector)
    THEN Ok(Unit)
    ELSE Err(validate_new(type, IntoStore(collector)))

-----------------------------------------------------------------------------
(* common/string_validator.rs *)

\* code points of StringValidator::SPECIAL_CHARS, in the order of the table:
\* ! @ # $ % ^ & * ( ) - _ = + [ ] { } \ | ; : ' " , . < > / ?
SPECIAL_CHARS ==
    {33, 64, 35, 36, 37, 94, 38, 42, 40, 41, 45, 95, 61, 43, 91, 93, 123, 125,
     92, 124, 59, 58, 39, 34, 44, 46, 60, 62, 47, 63}

is_ascii_uppercase(c) == c \in 65..90
is_ascii_lowercase(c) == c \in 97..122
is_ascii_digit(c) == c \in 48..57
is_ascii_alphanumeric(c) ==
    is_ascii_uppercase(c) \/ is_ascii_lowercase(c) \/ is_ascii_digit(c)

\* UTF-8 length of one code point, and of a string (str::len)
utf8_len(c) == IF c < 128 THEN 1 ELSE IF c < 2048 THEN 2 ELSE IF c < 65536 THEN 3 ELSE 4

RECURSIVE byte_len(_)
byte_len(s) == IF s = <<>> THEN 0 ELSE utf8_len(Head(s)) + byte_len(Tail(s))

\* Grapheme_Cluster_Break = Extend, for the code points the model uses: the
\* Combining Diacritical Marks block U+0300..U+036F
is_extend(c) == c \in 768..879

\* s.graphemes(true).count(): extended grapheme clusters.  For the model's
\* code points the only rule that joins is GB9 (no break before Extend), so
\* a cluster starts at the first code point and at every non-Extend one.
graphemes_count(s) ==
    Cardinality({i \in 1..Len(s) : i = 1 \/ ~is_extend(s[i])})

count_chars(s, P(_)) == Cardinality({i \in 1..Len(s) : P(s[i])})
any_char(s, P(_)) == \E i \in 1..Len(s) : P(s[i])

\* a StringValidator that counts chars, not grapheme clusters
StringValidator_new_code_points(s) == [str |-> s, count |-> Len(s)]
\* StringValidator(&str, usize)
StringValidator_new(s) == [str |-> s, count |-> graphemes_count(s)]
as_string_validator(s) == StringValidator_new(s)

count_graphemes(v) == v.count
sv_is_empty(v) == v.count = 0
is_special(c) == c \in SPECIAL_CHARS
has_special_chars(v) == any_char(v.str, is_special)
count_special_chars(v) == count_chars(v.str, is_special)
has_ascii_uppercase(v) == any_char(v.str, is_ascii_uppercase)
count_ascii_uppercase(v) == count_chars(v.str, is_ascii_uppercase)
has_ascii_lowercase(v) == any_char(v.str, is_ascii_lowercase)
count_ascii_lowercase(v) == count_chars(v.str, is_ascii_lowercase)
\* one of the two cases is enough
has_ascii_uppercase_or_lowercase(v) ==
    has_ascii_uppercase(v) \/ has_ascii_lowercase(v)
has_ascii_uppercase_and_lowercase(v) ==
    has_ascii_uppercase(v) /\ has_ascii_lowercase(v)
\* a count of the letters that is 0 unless both cases occur
count_ascii_uppercase_and_lowercase_if_both(v) ==
    IF has_ascii_uppercase(v) /\ has_ascii_lowercase(v)
    THEN count_ascii_uppercase(v) + count_ascii_lowercase(v)
    ELSE 0

count_ascii_uppercase_and_lowercase(v) ==
    count_ascii_uppercase(v) + count_ascii_lowercase(v)
has_ascii_digit(v) == any_char(v.str, is_ascii_digit)
count_ascii_digit(v) == count_chars(v.str, is_ascii_digit)
has_ascii_alphanumeric(v) == any_char(v.str, is_ascii_alphanumeric)
count_ascii_alphanumeric(v) == count_chars(v.str, is_ascii_alphanumeric)

-----------------------------------------------------------------------------
(* base/string_rules.rs *)

StringMandatoryRules_check(rules, collector, subject) ==
    IF rules.is_mandatory /\ sv_is_empty(subject)
    THEN push(collector, Error("Cannot be empty", Cause("StringMandatoryLocale", None)))
    ELSE collector

StringLengthRules_check(rules, collector, subject) ==
    LET m1 == IF is_some(rules.min_length)
                 /\ count_graphemes(subject) < unwrap(rules.min_length)
              THEN push(collector,
                        Error("Must be at least " \o ToString(unwrap(rules.min_length))
                                  \o " characters",
                              Cause("StringLengthLocale::MinLength", rules.min_length)))
              ELSE collector
    IN  IF is_some(rules.max_length)
           /\ count_graphemes(subject) > unwrap(rules.max_length)
        THEN push(m1,
                  Error("Must be at most " \o ToString(unwrap(rules.max_length))
                            \o " characters",
                        Cause("StringLengthLocale::MaxLength", rules.max_length)))
        ELSE m1

\* a check that stops at the first character class found missing
StringSpecialCharRules_check_stop_at_first(rules, collector, subject) ==
    IF rules.must_have_special_chars /\ ~has_special_chars(subject)
    THEN push(collector,
              Error("Must contain at least one special character",
                    Cause("StringSpecialCharLocale::MustHaveSpecialChars", None)))
    ELSE IF rules.must_have_digit /\ ~has_ascii_digit(subject)
         THEN push(collector,
                   Error("Must contain at least one digit",
                         Cause("StringSpecialCharLocale::MustHaveDigit", None)))
         ELSE collector

StringSpecialCharRules_check(rules, collector, subject) ==
    LET m1 == IF rules.must_have_special_chars /\ ~has_special_chars(subject)
              THEN push(collector,
                        Error("Must contain at least one special character",
                              Cause("StringSpecialCharLocale::MustHaveSpecialChars", None)))
              ELSE collector
        m2 == IF rules.must_have_uppercase /\ rules.must_have_lowercase
              THEN IF ~has_ascii_uppercase_and_lowercase(subject)
                   THEN push(m1,
                             Error("Must contain at least one uppercase and lowercase letter",
                                   Cause("StringSpecialCharLocale::MustHaveUppercaseAndLowercase", None)))
                   ELSE m1
              ELSE LET u == IF rules.must_have_uppercase /\ ~has_ascii_uppercase(subject)
                            THEN push(m1,
                                      Error("Must contain at least one uppercase letter",
                                            Cause("StringSpecialCharLocale::MustHaveUppercase", None)))
                            ELSE m1
                   IN  IF rules.must_have_lowercase /\ ~has_ascii_lowercase(subject)
                       THEN push(u,
                                 Error("Must contain at least one lowercase letter",
                                       Cause("StringSpecialCharLocale::MustHaveLowercase", None)))
                       ELSE u
    IN  IF rules.must_have_digit /\ ~has_ascii_digit(subject)
        THEN push(m2,
                  Error("Must contain at least one digit",
                        Cause("StringSpecialCharLocale::MustHaveDigit", None)))
        ELSE m2

-----------------------------------------------------------------------------
(* base/number_rules.rs *)

\* a value of the numeric type T
Num(n) == [nan |-> FALSE, n |-> n]
NaN == [nan |-> TRUE, n |-> 0]
\* T::default()
Num_default == Num(0)
\* PartialOrd: a NaN compares neither less nor greater
num_lt(a, b) == ~a.nan /\ ~b.nan /\ a.n < b.n
num_gt(a, b) == ~a.nan /\ ~b.nan /\ a.n > b.n
num_le(a, b) == ~a.nan /\ ~b.nan /\ a.n <= b.n
\* Display
num_display(a) == IF a.nan THEN "NaN" ELSE ToString(a.n)

NumberMandatoryRules_check(rules, collector, subject) ==
    IF rules.is_mandatory /\ is_none(subject)
    THEN push(collector, Error("Cannot be empty", Cause("NumberMandatoryLocale", None)))
    ELSE collector

\* a range check that stops at the first violated bound
NumberRangeRules_check_first_only(rules, collector, subject) ==
    LET some == is_some(subject)
        s == unwrap_or(subject, Num_default)
    IN  IF is_some(rules.min) /\ some /\ num_lt(s, unwrap(rules.min))
        THEN push(collector,
                  Error("Must be at least " \o num_display(unwrap(rules.min)),
                        Cause("NumberRangeLocale::MinValue", rules.min)))
        ELSE IF is_some(rules.max) /\ some /\ num_gt(s, unwrap(rules.max))
             THEN push(collector,
                       Error("Must be at most " \o num_display(unwrap(rules.max)),
                             Cause("NumberRangeLocale::MaxValue", rules.max)))
             ELSE collector
\* a check that compares the substituted default like a real subject
NumberRangeRules_check_default_subject(rules, collector, subject) ==
    LET s == unwrap_or(subject, Num_default)
        m1 == IF is_some(rules.min) /\ num_lt(s, unwrap(rules.min))
              THEN push(collector,
                        Error("Must be at least " \o num_display(unwrap(rules.min)),
                              Cause("NumberRangeLocale::MinValue", rules.min)))
              ELSE collector
    IN  IF is_some(rules.max) /\ num_gt(s, unwrap(rules.max))
        THEN push(m1,
                  Error("Must be at most " \o num_display(unwrap(rules.max)),
                        Cause("NumberRangeLocale::MaxValue", rules.max)))
        ELSE m1

NumberRangeRules_check(rules, collector, subject) ==
    LET some == is_some(subject)
        s == unwrap_or(subject, Num_default)
        m1 == IF is_some(rules.min) /\ some /\ num_lt(s, unwrap(rules.min))
              THEN push(collector,
                        Error("Must be at least " \o num_display(unwrap(rules.min)),
                              Cause("NumberRangeLocale::MinValue", rules.min)))
              ELSE collector
    IN  IF is_some(rules.max) /\ some /\ num_gt(s, unwrap(rules.max))
        THEN push(m1,
                  Error("Must be at most " \o num_display(unwrap(rules.max)),
                        Cause("NumberRangeLocale::MaxValue", rules.max)))
        ELSE m1

-----------------------------------------------------------------------------
(* chrono / humantime values and their conversions, as base/date_time/data.rs
   uses them *)

Pad2(n) == IF n < 10 THEN "0" \o ToString(n) ELSE ToString(n)
Pad3(n) == IF n < 10 THEN "00" \o ToString(n)
           ELSE IF n < 100 THEN "0" \o ToString(n) ELSE ToString(n)
Pad4(n) == IF n < 1000 THEN "0" \o Pad3(n) ELSE ToString(n)
RECURSIVE PadN(_, _)
PadN(n, width) == IF width = 1 THEN ToString(n % 10)
                  ELSE PadN(n \div 10, width - 1) \o ToString(n % 10)

\* NaiveTime
NaiveTime(h, m, s, nano) == [secs |-> (h * 60 + m) * 60 + s, nano |-> nano]
hour(t) == t.secs \div 3600
minute(t) == (t.secs \div 60) % 60
second(t) == t.secs % 60
num_seconds_from_midnight(t) == t.secs
nanosecond(t) == t.nano

\* NaiveDate
NaiveDate(y, m, d) == [year |-> y, month |-> m, day |-> d]
is_leap_year(y) == (y % 4 = 0 /\ y % 100 # 0) \/ y % 400 = 0
days_in_month(y, m) ==
    IF m = 2 THEN (IF is_leap_year(y) THEN 29 ELSE 28)
    ELSE IF m \in {4, 6, 9, 11} THEN 30 ELSE 31
RECURSIVE days_before_month(_, _)
days_before_month(y, m) ==
    IF m = 1 THEN 0 ELSE days_before_month(y, m - 1) + days_in_month(y, m - 1)
ordinal(date) == days_before_month(date.year, date.month) + date.day
\* days since 0001-01-01, that day being day 1
num_days_from_ce(date) ==
    LET p == date.year - 1
    IN  365 * p + p \div 4 - p \div 100 + p \div 400 + ordinal(date)

\* NaiveDateTime
NaiveDateTime(date, time) == [date |-> date, time |-> time]
\* and_utc().timestamp(): seconds since 1970-01-01T00:00:00Z (day 719163)
utc_timestamp(ndt) ==
    (num_days_from_ce(ndt.date) - 719163) * 86400 + ndt.time.secs

\* the fraction chrono prints after the seconds (Display and AutoSi)
fraction_auto(nano) ==
    IF nano = 0 THEN ""
    ELSE IF nano % 1000000 = 0 THEN "." \o Pad3(nano \div 1000000)
    ELSE IF nano % 1000 = 0 THEN "." \o PadN(nano \div 1000, 6)
    ELSE "." \o PadN(nano, 9)

date_to_string(d) == Pad4(d.year) \o "-" \o Pad2(d.month) \o "-" \o Pad2(d.day)
time_to_string(t) ==
    Pad2(hour(t)) \o ":" \o Pad2(minute(t)) \o ":" \o Pad2(second(t))
        \o fraction_auto(t.nano)

\* the strftime formats the model passes as `format`
FmtTime == "%H:%M"
FmtDate == "%d/%m/%Y"
FmtDateTime == "%Y-%m-%d %H:%M"
format_time(t, fmt) == Pad2(hour(t)) \o ":" \o Pad2(minute(t))
format_date(d, fmt) == Pad2(d.day) \o "/" \o Pad2(d.month) \o "/" \o Pad4(d.year)
format_date_time(ndt, fmt) ==
    date_to_string(ndt.date) \o " " \o Pad2(hour(ndt.time)) \o ":" \o Pad2(minute(ndt.time))

\* DateTime<Tz>: the local date and time and the zone's offset from UTC
DateTimeTz(local, offset) == [local |-> local, offset |-> offset]
timestamp(dt) == utc_timestamp(dt.local) - dt.offset
timestamp_subsec_nanos(dt) == dt.local.time.nano
offset_to_string(off) ==
    (IF off < 0 THEN "-" ELSE "+")
        \o Pad2((IF off < 0 THEN -off ELSE off) \div 3600) \o ":"
        \o Pad2(((IF off < 0 THEN -off ELSE off) \div 60) % 60)
to_rfc3339(dt) ==
    date_to_string(dt.local.date) \o "T" \o time_to_string(dt.local.time)
        \o offset_to_string(dt.offset)
\* Display of DateTime<Utc>
utc_to_string(ndt) ==
    date_to_string(ndt.date) \o " " \o time_to_string(ndt.time) \o " UTC"

\* humantime::Timestamp: a SystemTime, here by its UTC date and time
Timestamp(ndt) == [utc |-> ndt]
format_rfc3339(ts) ==
    date_to_string(ts.utc.date) \o "T"
        \o Pad2(hour(ts.utc.time)) \o ":" \o Pad2(minute(ts.utc.time)) \o ":"
        \o Pad2(second(ts.utc.time))
        \o (IF ts.utc.time.nano = 0 THEN "" ELSE "." \o PadN(ts.utc.time.nano, 9))
        \o "Z"

-----------------------------------------------------------------------------
(* base/date_time/data.rs *)

DateTimeData(kind, date_formatted, timestamp_seconds_days, subsec_nano) ==
    [kind |-> kind, date_formatted |-> date_formatted,
     timestamp_seconds_days |-> timestamp_seconds_days, subsec_nano |-> subsec_nano]

\* #[derive(Default)]: DateTimeKind::DateTime is the #[default] kind
DateTimeData_default == DateTimeData("DateTime", "", 0, 0)

\* an equality derived over all four fields
dt_eq_all_fields(a, b) == a = b
\* PartialEq / PartialOrd: the tuple (timestamp_seconds_days, subsec_nano)
dt_eq(a, b) ==
    a.timestamp_seconds_days = b.timestamp_seconds_days /\ a.subsec_nano = b.subsec_nano
dt_lt(a, b) ==
    \/ a.timestamp_seconds_days < b.timestamp_seconds_days
    \/ a.timestamp_seconds_days = b.timestamp_seconds_days /\ a.subsec_nano < b.subsec_nano
dt_gt(a, b) == dt_lt(b, a)

\* impl AsDateTimeData for NaiveTime and for (Option<&str>, &NaiveTime)
time_as_date_time_data(format, t) ==
    DateTimeData("Time",
                 IF is_some(format) THEN format_time(t, unwrap(format)) ELSE time_to_string(t),
                 num_seconds_from_midnight(t), nanosecond(t))

\* impl AsDateTimeData for NaiveDate and for (Option<&str>, &NaiveDate)
date_as_date_time_data(format, d) ==
    DateTimeData("Date",
                 IF is_some(format) THEN format_date(d, unwrap(format)) ELSE date_to_string(d),
                 num_days_from_ce(d), 0)

\* impl AsDateTimeData for NaiveDateTime and for (Option<&str>, &NaiveDateTime)
naive_date_time_as_date_time_data(format, ndt) ==
    DateTimeData("DateTimeNaive",
                 IF is_some(format) THEN format_date_time(ndt, unwrap(format))
                 ELSE utc_to_string(ndt),
                 utc_timestamp(ndt), ndt.time.nano)

\* impl<Tz: TimeZone> AsDateTimeData for DateTime<Tz>
date_time_as_date_time_data(dt) ==
    DateTimeData("DateTime", to_rfc3339(dt), timestamp(dt), timestamp_subsec_nanos(dt))

\* impl AsDateTimeData for humantime::Timestamp
timestamp_as_date_time_data(ts) ==
    LET secs == utc_timestamp(ts.utc)
    IN  \* duration_since(UNIX_EPOCH).unwrap_or_default()
        IF secs < 0
        THEN DateTimeData("DateTime", format_rfc3339(ts), 0, 0)
        ELSE DateTimeData("DateTime", format_rfc3339(ts), secs, ts.utc.time.nano)

-----------------------------------------------------------------------------
(* base/date_time/rules.rs *)

DateTimeMandatoryRules_check(rules, collector, subject) ==
    IF rules.is_mandatory /\ is_none(subject)
    THEN push(collector, Error("Cannot be empty", Cause("DateTimeMandatoryLocale", None)))
    ELSE collector

\* the text of a range message: format!("Must be after '{}'", ...)
must_be_after(data) == "Must be after '" \o data.date_formatted \o "'"
must_be_before(data) == "Must be before '" \o data.date_formatted \o "'"

\* a check that moves a max lying before min one day on, as check_time does
DateTimeRangeRules_check_shifted(rules, collector, subject) ==
    LET some == is_some(subject)
        s == unwrap_or(subject, DateTimeData_default)
        m1 == IF is_some(rules.min) /\ some /\ dt_lt(s, unwrap(rules.min))
              THEN push(collector,
                        Error(must_be_after(s),
                              Cause("DateTimeRangeLocale::MinValue", rules.min)))
              ELSE collector
        max == IF is_some(rules.min) /\ is_some(rules.max)
                    /\ dt_lt(unwrap(rules.max), unwrap(rules.min))
               THEN [unwrap(rules.max) EXCEPT !.timestamp_seconds_days = @ + 86400]
               ELSE unwrap(rules.max)
    IN  IF is_some(rules.max) /\ some /\ dt_gt(s, max)
        THEN push(m1,
                  Error(must_be_before(s),
                        Cause("DateTimeRangeLocale::MaxValue", Some(max))))
        ELSE m1

DateTimeRangeRules_check(rules, collector, subject) ==
    LET some == is_some(subject)
        s == unwrap_or(subject, DateTimeData_default)
        m1 == IF is_some(rules.min) /\ some /\ dt_lt(s, unwrap(rules.min))
              THEN push(collector,
                        Error(must_be_after(s),
                              Cause("DateTimeRangeLocale::MinValue", rules.min)))
              ELSE collector
    IN  IF is_some(rules.max) /\ some /\ dt_gt(s, unwrap(rules.max))
        THEN push(m1,
                  Error(must_be_before(s),
                        Cause("DateTimeRangeLocale::MaxValue", rules.max)))
        ELSE m1

\* 24 * 60 * 60, the seconds check_time adds to a max that lies before min
ONE_DAY == 86400

\* a max before min that is moved on by half a day only
check_time_max_half_day(rules) ==
    LET max == unwrap(rules.max)
    IN  IF is_some(rules.min) /\ dt_lt(max, unwrap(rules.min))
        THEN [max EXCEPT !.timestamp_seconds_days = @ + 12 * 60 * 60]
        ELSE max

\* the authored max, never moved
check_time_max_unshifted(rules) == unwrap(rules.max)
\* the max that check_time compares with
check_time_max(rules) ==
    LET max == unwrap(rules.max)
    IN  IF is_some(rules.min) /\ dt_lt(max, unwrap(rules.min))
        THEN [max EXCEPT !.timestamp_seconds_days = @ + ONE_DAY]
        ELSE max

DateTimeRangeRules_check_time(rules, collector, subject) ==
    LET some == is_some(subject)
        s == unwrap_or(subject, DateTimeData_default)
        m1 == IF is_some(rules.min) /\ some /\ dt_lt(s, unwrap(rules.min))
              THEN push(collector,
                        Error(must_be_after(s),
                              Cause("DateTimeRangeLocale::MinValue", rules.min)))
              ELSE collector
    IN  IF is_some(rules.max) /\ some /\ dt_gt(s, check_time_max(rules))
        THEN push(m1,
                  Error(must_be_before(s),
                        Cause("DateTimeRangeLocale::MaxValue", Some(check_time_max(rules)))))
        ELSE m1

-----------------------------------------------------------------------------
(* types/name.rs, types/description.rs, types/username.rs, types/password.rs *)

\* what a parse_custom leaves behind: its local collector as rules.check
\* left it, and the Result it returns
Parsed(collector, res) == [messages |-> collector, result |-> res]

\* X(String, bool) and X(T, bool): the validated value and the is_none flag
Value(type, v, none) == [type |-> type, v |-> v, is_none |-> none]
\* X(Option<T>) of the date and time wrappers
OptValue(type, subject) == [type |-> type, v |-> subject]

\* Ok(value) without the `?`
ParseResult_ignores_check(checked, value) == Ok(value)
\* the Result of `XError::validate_check(messages)?; Ok(value)`
ParseResult(checked, value) == IF checked.tag = "Err" THEN checked ELSE Ok(value)

StringRules(is_mandatory, min_length, max_length) ==
    [is_mandatory |-> is_mandatory, min_length |-> min_length, max_length |-> max_length]

NameRules_default == StringRules(TRUE, Some(5), Some(20))
DescriptionRules_default == StringRules(TRUE, None, Some(40))
UsernameRules_default == StringRules(TRUE, Some(5), Some(30))

\* a check that takes an empty string for an absent one
NameRules_check_empty_is_absent(rules, collector, subject, none) ==
    IF ~rules.is_mandatory /\ (none \/ sv_is_empty(subject)) THEN collector
    ELSE LET m1 == StringMandatoryRules_check(rules, collector, subject)
         IN  IF ~is_empty(m1) THEN m1
             ELSE StringLengthRules_check(rules, m1, subject)

\* the check without the return for an optional, absent subject
NameRules_check_no_carve_out(rules, collector, subject, none) ==
    LET m1 == StringMandatoryRules_check(rules, collector, subject)
    IN  IF ~is_empty(m1) THEN m1
        ELSE StringLengthRules_check(rules, m1, subject)
NameRules_check(rules, collector, subject, none) ==
    IF ~rules.is_mandatory /\ none THEN collector
    ELSE LET m1 == StringMandatoryRules_check(rules, collector, subject)
         IN  IF ~is_empty(m1) THEN m1
             ELSE StringLengthRules_check(rules, m1, subject)

Name_parse_custom(s, rules) ==
    LET none == is_none(s)
        str == unwrap_or(s, <<>>)
        m == NameRules_check(rules, ValidateErrorCollector_new, as_string_validator(str), none)
    IN  Parsed(m, ParseResult(validate_check("NameError", m), Value("Name", str, none)))

Name_parse(s) == Name_parse_custom(s, NameRules_default)

DescriptionRules_check(rules, collector, subject, none) ==
    IF ~rules.is_mandatory /\ none THEN collector
    ELSE LET m1 == StringMandatoryRules_check(rules, collector, subject)
         IN  IF ~is_empty(m1) THEN m1
             ELSE StringLengthRules_check(rules, m1, subject)

Description_parse_custom(s, rules) ==
    LET none == is_none(s)
        str == unwrap_or(s, <<>>)
        m == DescriptionRules_check(rules, ValidateErrorCollector_new,
                                    as_string_validator(str), none)
    IN  Parsed(m, ParseResult(validate_check("DescriptionError", m),
                              Value("Description", str, none)))

Description_parse(s) == Description_parse_custom(s, DescriptionRules_default)

UsernameRules_check(rules, collector, subject, none) ==
    IF ~rules.is_mandatory /\ none THEN collector
    ELSE LET m1 == StringMandatoryRules_check(rules, collector, subject)
         IN  IF ~is_empty(m1) THEN m1
             ELSE StringLengthRules_check(rules, m1, subject)

Username_parse_custom(s, rules) ==
    LET none == is_none(s)
        str == unwrap_or(s, <<>>)
        m == UsernameRules_check(rules, ValidateErrorCollector_new,
                                 as_string_validator(str), none)
    IN  Parsed(m, ParseResult(validate_check("UsernameError", m),
                              Value("Username", str, none)))

Username_parse(s) == Username_parse_custom(s, UsernameRules_default)

PasswordRules(is_mandatory, upper, lower, special, digit, min_length, max_length) ==
    [is_mandatory |-> is_mandatory, must_have_uppercase |-> upper,
     must_have_lowercase |-> lower, must_have_special_chars |-> special,
     must_have_digit |-> digit, min_length |-> min_length, max_length |-> max_length]

PasswordRules_default == PasswordRules(TRUE, TRUE, TRUE, TRUE, TRUE, Some(8), Some(64))

\* the check that stops after a failed length rule
PasswordRules_check_length_first(rules, collector, subject, none) ==
    IF ~rules.is_mandatory /\ none THEN collector
    ELSE LET m1 == StringMandatoryRules_check(rules, collector, subject)
             m2 == StringLengthRules_check(rules, m1, subject)
         IN  IF ~is_empty(m2) THEN m2
             ELSE StringSpecialCharRules_check(rules, m2, subject)

\* the check without the return after the mandatory rule
PasswordRules_check_no_short_circuit(rules, collector, subject, none) ==
    IF ~rules.is_mandatory /\ none THEN collector
    ELSE StringSpecialCharRules_check(
             rules,
             StringLengthRules_check(
                 rules, StringMandatoryRules_check(rules, collector, subject), subject),
             subject)
PasswordRules_check(rules, collector, subject, none) ==
    IF ~rules.is_mandatory /\ none THEN collector
    ELSE LET m1 == StringMandatoryRules_check(rules, collector, subject)
         IN  IF ~is_empty(m1) THEN m1
             ELSE StringSpecialCharRules_check(
                      rules, StringLengthRules_check(rules, m1, subject), subject)

Password_parse_custom(s, rules) ==
    LET none == is_none(s)
        str == unwrap_or(s, <<>>)
        m == PasswordRules_check(rules, ValidateErrorCollector_new,
                                 as_string_validator(str), none)
    IN  Parsed(m, ParseResult(validate_check("PasswordError", m),
                              Value("Password", str, none)))

Password_parse(s) == Password_parse_custom(s, PasswordRules_default)

-----------------------------------------------------------------------------
(* types/numbers/integer.rs, unsigned.rs, float.rs *)

NumberRules(is_mandatory, min, max) ==
    [is_mandatory |-> is_mandatory, min |-> min, max |-> max]

IntegerRules_default == NumberRules(TRUE, Some(Num(0)), Some(Num(255)))
UnsignedRules_default == NumberRules(TRUE, Some(Num(0)), Some(Num(255)))
FloatRules_default == NumberRules(TRUE, Some(Num(0)), Some(Num(255)))

IntegerRules_check(rules, collector, subject) ==
    IF ~rules.is_mandatory /\ is_none(subject) THEN collector
    ELSE LET m1 == NumberMandatoryRules_check(rules, collector, subject)
         IN  IF ~is_empty(m1) THEN m1
             ELSE NumberRangeRules_check(rules, m1, subject)

Integer_parse_custom(s, rules) ==
    LET m == IntegerRules_check(rules, ValidateErrorCollector_new, s)
    IN  Parsed(m, ParseResult(validate_check("IntegerError", m),
                              Value("Integer", unwrap_or(s, Num_default), is_none(s))))

Integer_parse(s) == Integer_parse_custom(s, IntegerRules_default)

UnsignedRules_check(rules, collector, subject) ==
    IF ~rules.is_mandatory /\ is_none(subject) THEN collector
    ELSE LET m1 == NumberMandatoryRules_check(rules, collector, subject)
         IN  IF ~is_empty(m1) THEN m1
             ELSE NumberRangeRules_check(rules, m1, subject)

Unsigned_parse_custom(s, rules) ==
    LET m == UnsignedRules_check(rules, ValidateErrorCollector_new, s)
    IN  Parsed(m, ParseResult(validate_check("UnsignedError", m),
                              Value("Unsigned", unwrap_or(s, Num_default), is_none(s))))

Unsigned_parse(s) == Unsigned_parse_custom(s, UnsignedRules_default)

FloatRules_check(rules, collector, subject) ==
    IF ~rules.is_mandatory /\ is_none(subject) THEN collector
    ELSE LET m1 == NumberMandatoryRules_check(rules, collector, subject)
         IN  IF ~is_empty(m1) THEN m1
             ELSE NumberRangeRules_check(rules, m1, subject)

Float_parse_custom(s, rules) ==
    LET m == FloatRules_check(rules, ValidateErrorCollector_new, s)
    IN  Parsed(m, ParseResult(validate_check("FloatError", m),
                              Value("Float", unwrap_or(s, Num_default), is_none(s))))

Float_parse(s) == Float_parse_custom(s, FloatRules_default)

-----------------------------------------------------------------------------
(* types/times_chrono/{date,naive_date_time,date_time,time}.rs,
   types/times_humantime/mod.rs *)

\* XRules { is_mandatory, min: Option<X>, max: Option<X> }
TimeRules(is_mandatory, min, max) ==
    [is_mandatory |-> is_mandatory, min |-> min, max |-> max]

\* fn rules(): the mandatory rule and the range rule over DateTimeData
RangeOf(rules, conv(_)) ==
    [is_mandatory |-> rules.is_mandatory,
     min |-> {conv(x) : x \in rules.min},
     max |-> {conv(x) : x \in rules.max}]

TimeRules_default ==
    TimeRules(TRUE, Some(NaiveTime(9, 0, 0, 0)), Some(NaiveTime(17, 0, 0, 0)))

TimeRules_rules(rules, date_format) ==
    LET conv(x) == time_as_date_time_data(date_format, x) IN RangeOf(rules, conv)

TimeRules_check(rules, subject, collector, date_format) ==
    IF ~rules.is_mandatory /\ is_none(subject) THEN collector
    ELSE LET data == {time_as_date_time_data(date_format, s) : s \in subject}
             r == TimeRules_rules(rules, date_format)
             m1 == DateTimeMandatoryRules_check(r, collector, data)
         IN  IF ~is_empty(m1) THEN m1
             ELSE DateTimeRangeRules_check_time(r, m1, data)

TimeValue_parse_custom_with_format(subject, rules, format) ==
    LET m == TimeRules_check(rules, subject, ValidateErrorCollector_new, format)
    IN  Parsed(m, ParseResult(validate_check("TimeError", m), OptValue("TimeValue", subject)))

TimeValue_parse_custom(subject, rules) ==
    TimeValue_parse_custom_with_format(subject, rules, None)

TimeValue_parse(subject) == TimeValue_parse_custom(subject, TimeRules_default)

\* times_chrono/date.rs: fn rules() builds max from self.min as well
DateRules_rules(rules, date_format) ==
    [is_mandatory |-> rules.is_mandatory,
     min |-> {date_as_date_time_data(date_format, min) : min \in rules.min},
     max |-> {date_as_date_time_data(date_format, max) : max \in rules.min}]

DateRules_check(rules, subject, collector, date_format) ==
    IF ~rules.is_mandatory /\ is_none(subject) THEN collector
    ELSE LET data == {date_as_date_time_data(date_format, s) : s \in subject}
             r == DateRules_rules(rules, date_format)
             m1 == DateTimeMandatoryRules_check(r, collector, data)
         IN  IF ~is_empty(m1) THEN m1
             ELSE DateTimeRangeRules_check(r, m1, data)

DateValue_parse_custom_with_format(subject, rules, format) ==
    LET m == DateRules_check(rules, subject, ValidateErrorCollector_new, format)
    IN  Parsed(m, ParseResult(validate_check("DateError", m), OptValue("DateValue", subject)))

DateValue_parse_custom(subject, rules) ==
    DateValue_parse_custom_with_format(subject, rules, None)

NaiveDateTimeRules_rules(rules, date_format) ==
    LET conv(x) == naive_date_time_as_date_time_data(date_format, x)
    IN  RangeOf(rules, conv)

NaiveDateTimeRules_check(rules, subject, collector, date_format) ==
    IF ~rules.is_mandatory /\ is_none(subject) THEN collector
    ELSE LET data == {naive_date_time_as_date_time_data(date_format, s) : s \in subject}
             r == NaiveDateTimeRules_rules(rules, date_format)
             m1 == DateTimeMandatoryRules_check(r, collector, data)
         IN  IF ~is_empty(m1) THEN m1
             ELSE DateTimeRangeRules_check(r, m1, data)

NaiveDateTimeValue_parse_custom_with_format(subject, rules, format) ==
    LET m == NaiveDateTimeRules_check(rules, subject, ValidateErrorCollector_new, format)
    IN  Parsed(m, ParseResult(validate_check("NaiveDateTimeError", m),
                              OptValue("NaiveDateTimeValue", subject)))

NaiveDateTimeValue_parse_custom(subject, rules) ==
    NaiveDateTimeValue_parse_custom_with_format(subject, rules, None)

\* times_chrono/date_time.rs
DateTimeRules_rules(rules) == RangeOf(rules, date_time_as_date_time_data)

DateTimeRules_check(rules, collector, subject) ==
    IF ~rules.is_mandatory /\ is_none(subject) THEN collector
    ELSE LET data == {date_time_as_date_time_data(s) : s \in subject}
             r == DateTimeRules_rules(rules)
             m1 == DateTimeMandatoryRules_check(r, collector, data)
         IN  IF ~is_empty(m1) THEN m1
             ELSE DateTimeRangeRules_check(r, m1, data)

DateTimeValue_parse_custom(subject, rules) ==
    LET m == DateTimeRules_check(rules, ValidateErrorCollector_new, subject)
    IN  Parsed(m, ParseResult(validate_check("DateTimeError", m),
                              OptValue("DateTimeValue", subject)))

\* times_humantime/mod.rs
HumanDateTimeRules_rules(rules) == RangeOf(rules, timestamp_as_date_time_data)

HumanDateTimeRules_check(rules, collector, subject) ==
    IF ~rules.is_mandatory /\ is_none(subject) THEN collector
    ELSE LET data == {timestamp_as_date_time_data(s) : s \in subject}
             r == HumanDateTimeRules_rules(rules)
             m1 == DateTimeMandatoryRules_check(r, collector, data)
         IN  IF ~is_empty(m1) THEN m1
             ELSE DateTimeRangeRules_check(r, m1, data)

HumanDateTimeValue_parse_custom(subject, rules) ==
    LET m == HumanDateTimeRules_check(rules, ValidateErrorCollector_new, subject)
    IN  Parsed(m, ParseResult(validate_check("DateTimeError", m),
                              OptValue("DateTimeValue", subject)))

-----------------------------------------------------------------------------
(* types/email.rs, types/url.rs: wrappers that hand the string to an external
   parser after the mandatory rule *)

to_ascii_lowercase(c) == IF c \in 65..90 THEN c + 32 ELSE c

\* email_address_parser::EmailAddress::parse(s, None): local-part "@" domain,
\* both dot-atoms of atext (ASCII letters and digits, non-ASCII characters)
is_atext(c) == is_ascii_alphanumeric(c) \/ c >= 128
is_dot_atom(s) ==
    /\ s # <<>>
    /\ \A i \in 1..Len(s) : is_atext(s[i]) \/ s[i] = 46
    /\ s[1] # 46 /\ s[Len(s)] # 46
    /\ \A i \in 1..(Len(s) - 1) : ~(s[i] = 46 /\ s[i + 1] = 46)
EmailAddress_parse(s) ==
    LET ats == {i \in 1..Len(s) : s[i] = 64}
    IN  IF Cardinality(ats) # 1 THEN None
        ELSE LET i == CHOOSE j \in ats : TRUE
                 local_part == SubSeq(s, 1, i - 1)
                 domain == SubSeq(s, i + 1, Len(s))
             IN  IF is_dot_atom(local_part) /\ is_dot_atom(domain)
                 THEN Some([local_part |-> local_part, domain |-> domain])
                 ELSE None

\* url::Url::parse(s): an absolute URL, scheme ":" rest; the schemes http,
\* https, ws, wss and ftp need a host
is_scheme_char(c) == is_ascii_alphanumeric(c) \/ c \in {43, 45, 46}
is_scheme(s) ==
    /\ s # <<>>
    /\ is_ascii_uppercase(s[1]) \/ is_ascii_lowercase(s[1])
    /\ \A i \in 1..Len(s) : is_scheme_char(s[i])
SchemesWithHost ==
    {<<104, 116, 116, 112>>, <<104, 116, 116, 112, 115>>, <<119, 115>>,
     <<119, 115, 115>>, <<102, 116, 112>>}
skip_slashes(s) ==
    LET n == Cardinality({i \in 1..Len(s) : \A j \in 1..i : s[j] \in {47, 92}})
    IN  SubSeq(s, n + 1, Len(s))
UrlValue_parse(s) ==
    LET colons == {i \in 1..Len(s) : s[i] = 58 /\ is_scheme(SubSeq(s, 1, i - 1))}
    IN  IF colons = {} THEN None
        ELSE LET i == CHOOSE j \in colons : \A k \in colons : j <= k
                 scheme == [k \in 1..(i - 1) |-> to_ascii_lowercase(s[k])]
                 rest == SubSeq(s, i + 1, Len(s))
                 host == skip_slashes(rest)
             IN  IF scheme \in SchemesWithHost
                 THEN IF host # <<>> /\ is_ascii_alphanumeric(host[1])
                      THEN Some([scheme |-> scheme, rest |-> host])
                      ELSE None
                 ELSE Some([scheme |-> scheme, rest |-> rest])

\* Email(String, Option<EmailAddress>, bool), Url(String, Option<UrlValue>, bool)
ParsedValue(type, v, parsed, none) ==
    [type |-> type, v |-> v, parsed |-> parsed, is_none |-> none]

EmailRules(is_mandatory) == [is_mandatory |-> is_mandatory]
EmailRules_default == EmailRules(TRUE)
UrlRules_default == EmailRules(TRUE)

EmailRules_check(rules, collector, subject, none) ==
    IF ~rules.is_mandatory /\ none THEN collector
    ELSE StringMandatoryRules_check(rules, collector, subject)

UrlRules_check(rules, collector, subject, none) ==
    IF ~rules.is_mandatory /\ none THEN collector
    ELSE StringMandatoryRules_check(rules, collector, subject)

\* the error of a rejected address or URL: one entry on a fresh collector
InvalidError(type, message, cause) ==
    Err(validate_new(type,
            IntoStore(push(ValidateErrorCollector_new, Error(message, Cause(cause, None))))))

\* a parse_custom that pushes the parser's failure on the rule collector
Email_parse_custom_one_collector(s, rules) ==
    LET none == is_none(s)
        str == unwrap_or(s, <<>>)
        m == EmailRules_check(rules, ValidateErrorCollector_new, as_string_validator(str), none)
        email == EmailAddress_parse(str)
        m2 == IF is_none(email)
              THEN push(m, Error("Invalid Email", Cause("EmailAddressLocale::InvalidEmail", None)))
              ELSE m
    IN  Parsed(m, ParseResult(validate_check("EmailError", m2),
                              ParsedValue("Email", str, email, none)))
Email_parse_custom(s, rules) ==
    LET none == is_none(s)
        str == unwrap_or(s, <<>>)
        m == EmailRules_check(rules, ValidateErrorCollector_new, as_string_validator(str), none)
        checked == validate_check("EmailError", m)
        email == EmailAddress_parse(str)
    IN  IF checked.tag = "Err" THEN Parsed(m, checked)
        ELSE IF is_none(email)
             THEN Parsed(m, InvalidError("EmailError", "Invalid Email",
                                         "EmailAddressLocale::InvalidEmail"))
             ELSE Parsed(m, Ok(ParsedValue("Email", str, email, none)))

Email_parse(s) == Email_parse_custom(s, EmailRules_default)

Url_parse_custom(s, rules) ==
    LET none == is_none(s)
        str == unwrap_or(s, <<>>)
        m == UrlRules_check(rules, ValidateErrorCollector_new, as_string_validator(str), none)
        checked == validate_check("UrlError", m)
        url == UrlValue_parse(str)
    IN  IF checked.tag = "Err" THEN Parsed(m, checked)
        ELSE IF is_none(url)
             THEN Parsed(m, InvalidError("UrlError", "Invalid URL", "UrlValueLocale"))
             ELSE Parsed(m, Ok(ParsedValue("Url", str, url, none)))

Url_parse(s) == Url_parse_custom(s, EmailRules_default)

\* a confirmation that compares the lengths only
Email_parse_confirm_by_length(self, confirm_email) ==
    LET m == IF Len(self.v) # Len(confirm_email)
             THEN push(ValidateErrorCollector_new,
                       Error("Email does not match",
                             Cause("EmailAddressLocale::DoesNotMatch", None)))
             ELSE ValidateErrorCollector_new
    IN  Parsed(m, ParseResult(validate_check("EmailError", m), self))
\* Email::parse_confirm(&self, confirm_email)
Email_parse_confirm(self, confirm_email) ==
    LET m == IF self.v # confirm_email
             THEN push(ValidateErrorCollector_new,
                       Error("Email does not match",
                             Cause("EmailAddressLocale::DoesNotMatch", None)))
             ELSE ValidateErrorCollector_new
    IN  Parsed(m, ParseResult(validate_check("EmailError", m), self))

\* Email::default()
Email_default == ParsedValue("Email", <<>>, None, TRUE)

\* Password::parse_confirm(&self, password_confirm)
Password_parse_confirm(self, password_confirm) ==
    LET msgs == IF password_confirm # self.v
                THEN push(ValidateErrorCollector_new,
                          Error("Password does not match",
                                Cause("PasswordDoesNotMatchLocale", None)))
                ELSE ValidateErrorCollector_new
    IN  Parsed(msgs, ParseResult(validate_check("PasswordError", msgs), self))

\* impl IsUsernameTaken / IsUsernameTakenAsync for FakeUsernameCheckService:
\* the service that knows one taken name
FakeUsernameCheckService(name) == [taken |-> name]
is_username_taken(service, username) == username = service.taken

\* what check_username_taken leaves behind: the collector, the Result and the
\* arguments of the calls made to the service
Checked(collector, res, calls) ==
    [messages |-> collector, result |-> res, calls |-> calls]

\* a check that never asks the service
Username_check_username_taken_unasked(self, service) ==
    Checked(ValidateErrorCollector_new, Ok(self), <<>>)
\* Username::check_username_taken(&self, service)
Username_check_username_taken(self, service) ==
    LET answer == is_username_taken(service, self.v)
        m == IF answer
             THEN push(ValidateErrorCollector_new,
                       Error("Already taken", Cause("UsernameTakenLocale", None)))
             ELSE ValidateErrorCollector_new
    IN  Checked(m, ParseResult(validate_check("UsernameError", m), self), <<self.v>>)

\* Username::check_username_taken_async(&self, service), awaited to its end
Username_check_username_taken_async(self, service) ==
    LET answer == is_username_taken(service, self.v)
        m == IF answer
             THEN push(ValidateErrorCollector_new,
                       Error("Already taken", Cause("UsernameTakenLocale", None)))
             ELSE ValidateErrorCollector_new
    IN  Checked(m, ParseResult(validate_check("UsernameError", m), self), <<self.v>>)

\* an into_option that forgets the flag
into_option_always_some(value) == Some(value)
\* fn into_option(self) -> Option<Self> of the wrappers that carry the flag
into_option(value) == IF value.is_none THEN None ELSE Some(value)

-----------------------------------------------------------------------------
(* common/flag_error.rs *)

\* what a function that takes &mut and returns the Result leaves behind
Flagged(state, res) == [state |-> state, result |-> res]

flag_error(flag, res) ==
    Flagged(IF res.tag = "Err" THEN TRUE ELSE flag, res)

FlagCounter_new == [count |-> 0]
\* a check that counts every Result it is passed
FlagCounter_check_counts_all(self, res) ==
    Flagged([count |-> self.count + 1], res)
FlagCounter_check(self, res) ==
    Flagged(IF res.tag = "Err" THEN [count |-> self.count + 1] ELSE self, res)
is_flagged(self) == self.count > 0
get_count(self) == self.count

-----------------------------------------------------------------------------
(* The inputs the operations are run on *)

\* 'A', 'a', '1', '@' and U+0301 COMBINING ACUTE ACCENT
Alphabet == {65, 97, 49, 64, 769}

str_ValidName == <<86, 97, 108, 105, 100, 78, 97, 109, 101>>
str_Hello1At == <<72, 101, 108, 108, 111, 49, 64>>
\* "he" + U+0301 + "llo": 6 code points, 7 bytes, 5 grapheme clusters
str_hello_combining == <<104, 101, 769, 108, 108, 111>>
\* five times U+00E9: 5 code points, 10 bytes, 5 grapheme clusters
str_five_e_acute == <<233, 233, 233, 233, 233>>
\* twenty-one times 'a'
str_21 == [i \in 1..21 |-> 97]

SampleStrings ==
    {str_ValidName, str_Hello1At, str_hello_combining, str_five_e_acute, str_21}
Strings == SeqsUpTo(Alphabet, MaxStrLen) \cup SampleStrings

LengthBounds == Option({1, 2, 5, 20})
StringRulesSet ==
    {StringRules(m, lo, hi) : m \in BOOLEAN, lo \in LengthBounds, hi \in LengthBounds}
LengthRulesSet ==
    {[min_length |-> lo, max_length |-> hi] : lo \in LengthBounds, hi \in LengthBounds}
SpecialCharRulesSet ==
    [must_have_uppercase : BOOLEAN, must_have_lowercase : BOOLEAN,
     must_have_special_chars : BOOLEAN, must_have_digit : BOOLEAN]
PasswordRulesSet ==
    {PasswordRules(m, c.must_have_uppercase, c.must_have_lowercase,
                   c.must_have_special_chars, c.must_have_digit, lo, hi) :
        m \in BOOLEAN, c \in SpecialCharRulesSet,
        lo \in Option({2, 5}), hi \in Option({2, 20})}
MandatoryRulesSet == [is_mandatory : BOOLEAN]

Integers_isize == {Num(n) : n \in {-50, -1, 0, 1, 255, 256, 1000}}
Integers_usize == {Num(n) : n \in {0, 1, 255, 256, 1000}}
\* f64: whole numbers and NaN
Floats == Integers_isize \cup {NaN}
NumberRulesSet(T) ==
    {NumberRules(m, lo, hi) : m \in BOOLEAN, lo \in Option(T), hi \in Option(T)}
RangeRulesSet(T) == {[min |-> lo, max |-> hi] : lo \in Option(T), hi \in Option(T)}

NaiveTimes ==
    {NaiveTime(3, 0, 0, 0), NaiveTime(6, 0, 0, 0), NaiveTime(9, 0, 0, 0),
     NaiveTime(10, 0, 0, 0), NaiveTime(17, 0, 0, 0), NaiveTime(17, 0, 0, 500000000),
     NaiveTime(18, 0, 0, 0), NaiveTime(21, 0, 0, 0), NaiveTime(23, 30, 0, 0)}
BoundTimes ==
    {NaiveTime(6, 0, 0, 0), NaiveTime(9, 0, 0, 0), NaiveTime(17, 0, 0, 0),
     NaiveTime(21, 0, 0, 0)}
TimeFormats == {None, Some(FmtTime)}

NaiveDates ==
    {NaiveDate(2024, 12, 31), NaiveDate(2025, 1, 1), NaiveDate(2025, 1, 15),
     NaiveDate(2025, 1, 31), NaiveDate(2025, 2, 1)}
BoundDates == {NaiveDate(2025, 1, 1), NaiveDate(2025, 1, 31)}
DateFormats == {None, Some(FmtDate)}

NaiveDateTimes ==
    {NaiveDateTime(d, t) :
        d \in {NaiveDate(2024, 12, 31), NaiveDate(2025, 1, 1)},
        t \in {NaiveTime(0, 0, 0, 0), NaiveTime(10, 0, 0, 0),
               NaiveTime(23, 30, 0, 500000000)}}
BoundDateTimes ==
    {NaiveDateTime(NaiveDate(2025, 1, 1), NaiveTime(0, 0, 0, 0)),
     NaiveDateTime(NaiveDate(2025, 1, 1), NaiveTime(10, 0, 0, 0))}
DateTimeFormats == {None, Some(FmtDateTime)}
\* UTC and UTC+01:00
Offsets == {0, 3600}
DateTimes == {DateTimeTz(l, o) : l \in NaiveDateTimes, o \in Offsets}
BoundDateTimesTz == {DateTimeTz(l, o) : l \in BoundDateTimes, o \in Offsets}
Timestamps == {Timestamp(l) : l \in NaiveDateTimes}
BoundTimestamps == {Timestamp(l) : l \in BoundDateTimes}

WrapperRulesSet(T) ==
    {TimeRules(m, lo, hi) : m \in BOOLEAN, lo \in Option(T), hi \in Option(T)}

\* DateTimeData handed to the rule primitives directly
SubjectData ==
    {time_as_date_time_data(None, t) : t \in NaiveTimes}
        \cup {date_as_date_time_data(None, d) : d \in BoundDates}
        \cup {DateTimeData("DateTime", "", s, n) : s \in 1..2, n \in 1..3}
BoundData ==
    {time_as_date_time_data(None, t) : t \in BoundTimes}
        \cup {date_as_date_time_data(None, NaiveDate(2025, 1, 1))}
        \cup {DateTimeData("DateTime", "", s, 2) : s \in 1..2}
        \* an instant two days before the epoch
        \cup {DateTimeData("DateTime", "", 0 - 2 * ONE_DAY, 0)}

\* "test@example.com", "test", "a@a", "A@a", "@"
str_test_email == <<116, 101, 115, 116, 64, 101, 120, 97, 109, 112, 108, 101, 46, 99, 111, 109>>
str_test == <<116, 101, 115, 116>>
EmailStrings ==
    {<<>>, str_test, str_test_email, <<97, 64, 97>>, <<65, 64, 97>>, <<64>>}
\* "https://example.com", "example.com", "http://"
str_https_example == <<104, 116, 116, 112, 115, 58, 47, 47, 101, 120, 97, 109, 112, 108, 101, 46, 99, 111, 109>>
UrlStrings ==
    {<<>>, str_test, str_https_example,
     <<101, 120, 97, 109, 112, 108, 101, 46, 99, 111, 109>>,
     <<104, 116, 116, 112, 58, 47, 47>>}
EmailRulesSet == {EmailRules(m) : m \in BOOLEAN}

\* DateTimeData values compared with each other: test_order's (1, 1) and
\* (1, 2), and values that differ in kind or date_formatted only
ComparedData ==
    {DateTimeData(k, f, s, n) :
        k \in {"DateTime", "Date"}, f \in {"en", ""}, s \in 1..2, n \in 1..2}

\* the values a successful parse returns
OkValues(parsed) == {p.result.value : p \in {q \in parsed : q.result.tag = "Ok"}}
EmailValues ==
    OkValues({Email_parse_custom(s, rules) : s \in Option(EmailStrings), rules \in EmailRulesSet})
        \cup {Email_default}
PasswordValues ==
    OkValues({Password_parse_custom(s, rules) : s \in Option(Strings), rules \in PasswordRulesSet})

\* "taken", "not_taken"
str_taken == <<116, 97, 107, 101, 110>>
str_not_taken == <<110, 111, 116, 95, 116, 97, 107, 101, 110>>
UsernameValues ==
    OkValues({Username_parse_custom(s, rules) : s \in Option(Strings), rules \in StringRulesSet})
        \cup {Value("Username", str_taken, FALSE), Value("Username", str_not_taken, FALSE)}
Services == {FakeUsernameCheckService(n) : n \in {str_taken, <<97>>, <<>>}}

\* the Results passed to a FlagCounter or to flag_error: parses of a title
\* and of a description, two that fail and two that succeed
FlagResults ==
    {Name_parse(None).result, Name_parse(Some(<<97>>)).result,
     Name_parse(Some(str_ValidName)).result,
     Description_parse(Some(str_ValidName)).result}

\* entries a caller pushes by hand
PushErrors ==
    {Error("error", Cause("StringMandatoryLocale", None)),
     Error("Cannot be empty", Cause("NumberMandatoryLocale", None))}

\* entries of the collectors whose stores are compared
StoreErrors ==
    {Error("Cannot be empty", Cause("StringMandatoryLocale", None)),
     Error("Cannot be empty", Cause("NumberMandatoryLocale", None)),
     Error("a", Cause("StringMandatoryLocale", None)),
     Error("ab", Cause("StringMandatoryLocale", None)),
     Error("bc", Cause("NumberMandatoryLocale", None)),
     Error("c", Cause("NumberMandatoryLocale", None)),
     Error("", Cause("StringMandatoryLocale", None))}
StoreCollectors == SeqsUpTo(StoreErrors, MaxStoreLen)

-----------------------------------------------------------------------------
(* The operations *)

Init ==
    /\ messages = ValidateErrorCollector_new
    /\ pre = <<>>
    /\ call = [op |-> "ValidateErrorCollector::new", family |-> "new"]
    /\ result = NoResult
    /\ phase = "building"
    /\ held = None
    /\ flags = None

\* ValidateErrorCollector::new()
New ==
    /\ call.family # "new"
    /\ messages' = ValidateErrorCollector_new
    /\ pre' = <<>>
    /\ call' = [op |-> "ValidateErrorCollector::new", family |-> "new"]
    /\ result' = NoResult
    /\ phase' = "building"
    \* the values of the scenario before go out of scope
    /\ held' = None
    /\ flags' = None

\* ValidateErrorCollector::push
Push ==
    /\ phase \in {"building", "restored"}
    /\ len(messages) < MaxPush
    /\ \E e \in PushErrors :
        /\ messages' = push(messages, e)
        /\ call' = [op |-> "ValidateErrorCollector::push", family |-> "push", error |-> e]
    /\ pre' = messages
    /\ result' = NoResult
    /\ UNCHANGED <<phase, held, flags>>

\* a collector is under construction and no rule has been run on it yet
Building == phase = "building"

\* one rule primitive run on the collector under construction
RuleCheck(op, rules, subject, after) ==
    /\ messages' = after
    /\ pre' = messages
    /\ call' = [op |-> op, family |-> "rule", rules |-> rules, subject |-> subject]
    /\ result' = NoResult
    /\ phase' = "checked"
    /\ UNCHANGED <<held, flags>>

CheckStringMandatory ==
    /\ Building
    /\ \E rules \in MandatoryRulesSet, s \in Strings :
           RuleCheck("StringMandatoryRules::check", rules, s,
                     StringMandatoryRules_check(rules, messages, as_string_validator(s)))

CheckStringLength ==
    /\ Building
    /\ \E rules \in LengthRulesSet, s \in Strings :
           RuleCheck("StringLengthRules::check", rules, s,
                     StringLengthRules_check(rules, messages, as_string_validator(s)))

CheckStringSpecialChar ==
    /\ Building
    /\ \E rules \in SpecialCharRulesSet, s \in Strings :
           RuleCheck("StringSpecialCharRules::check", rules, s,
                     StringSpecialCharRules_check(rules, messages, as_string_validator(s)))

CheckNumberMandatory ==
    /\ Building
    /\ \E rules \in MandatoryRulesSet, s \in Option(Floats) :
           RuleCheck("NumberMandatoryRules::check", rules, s,
                     NumberMandatoryRules_check(rules, messages, s))

CheckNumberRange ==
    /\ Building
    /\ \E rules \in RangeRulesSet(Floats), s \in Option(Floats) :
           RuleCheck("NumberRangeRules::check", rules, s,
                     NumberRangeRules_check(rules, messages, s))

CheckDateTimeMandatory ==
    /\ Building
    /\ \E rules \in MandatoryRulesSet, s \in Option(SubjectData) :
           RuleCheck("DateTimeMandatoryRules::check", rules, s,
                     DateTimeMandatoryRules_check(rules, messages, s))

CheckDateTimeRange ==
    /\ Building
    /\ \E rules \in RangeRulesSet(BoundData), s \in Option(SubjectData) :
           RuleCheck("DateTimeRangeRules::check", rules, s,
                     DateTimeRangeRules_check(rules, messages, s))

CheckDateTimeRangeTime ==
    /\ Building
    /\ \E rules \in RangeRulesSet(BoundData), s \in Option(SubjectData) :
           RuleCheck("DateTimeRangeRules::check_time", rules, s,
                     DateTimeRangeRules_check_time(rules, messages, s))

\* ValidationCheck::validate_check on the collector under construction
ValidateCheck ==
    /\ phase \in {"building", "checked", "restored"}
    /\ result' = validate_check("TestValidationCheck", messages)
    /\ call' = [op |-> "ValidationCheck::validate_check", family |-> "validate"]
    /\ pre' = messages
    /\ messages' = messages
    /\ phase' = "consumed"
    \* the caller keeps the store of the error it was handed
    /\ held' = IF result'.tag = "Err" THEN Some(result'.error.store) ELSE None
    /\ UNCHANGED flags

\* nothing is in progress: the caller holds no collector of its own yet
Idle == call.family = "new"

\* one parse of a typed wrapper: a fresh collector, the composed rules, the
\* Result
Parse(op, raw, rules, format, parsed) ==
    /\ pre' = ValidateErrorCollector_new
    /\ messages' = parsed.messages
    /\ result' = parsed.result
    /\ call' = [op |-> op, family |-> "parse", raw |-> raw, rules |-> rules,
                format |-> format]
    /\ phase' = "consumed"
    /\ UNCHANGED <<held, flags>>

NameParseCustom ==
    /\ Idle
    /\ \E s \in Option(Strings), rules \in StringRulesSet :
           Parse("Name::parse_custom", s, rules, None, Name_parse_custom(s, rules))
NameParse ==
    /\ Idle
    /\ \E s \in Option(Strings) :
           Parse("Name::parse", s, NameRules_default, None, Name_parse(s))
DescriptionParseCustom ==
    /\ Idle
    /\ \E s \in Option(Strings), rules \in StringRulesSet :
           Parse("Description::parse_custom", s, rules, None, Description_parse_custom(s, rules))
DescriptionParse ==
    /\ Idle
    /\ \E s \in Option(Strings) :
           Parse("Description::parse", s, DescriptionRules_default, None, Description_parse(s))
UsernameParseCustom ==
    /\ Idle
    /\ \E s \in Option(Strings), rules \in StringRulesSet :
           Parse("Username::parse_custom", s, rules, None, Username_parse_custom(s, rules))
UsernameParse ==
    /\ Idle
    /\ \E s \in Option(Strings) :
           Parse("Username::parse", s, UsernameRules_default, None, Username_parse(s))
PasswordParseCustom ==
    /\ Idle
    /\ \E s \in Option(Strings), rules \in PasswordRulesSet :
           Parse("Password::parse_custom", s, rules, None, Password_parse_custom(s, rules))
PasswordParse ==
    /\ Idle
    /\ \E s \in Option(Strings) :
           Parse("Password::parse", s, PasswordRules_default, None, Password_parse(s))

IntegerParseCustom ==
    /\ Idle
    /\ \E s \in Option(Integers_isize), rules \in NumberRulesSet(Integers_isize) :
           Parse("Integer::parse_custom", s, rules, None, Integer_parse_custom(s, rules))
IntegerParse ==
    /\ Idle
    /\ \E s \in Option(Integers_isize) :
           Parse("Integer::parse", s, IntegerRules_default, None, Integer_parse(s))
UnsignedParseCustom ==
    /\ Idle
    /\ \E s \in Option(Integers_usize), rules \in NumberRulesSet(Integers_usize) :
           Parse("Unsigned::parse_custom", s, rules, None, Unsigned_parse_custom(s, rules))
UnsignedParse ==
    /\ Idle
    /\ \E s \in Option(Integers_usize) :
           Parse("Unsigned::parse", s, UnsignedRules_default, None, Unsigned_parse(s))
FloatParseCustom ==
    /\ Idle
    /\ \E s \in Option(Floats), rules \in NumberRulesSet(Floats) :
           Parse("Float::parse_custom", s, rules, None, Float_parse_custom(s, rules))
FloatParse ==
    /\ Idle
    /\ \E s \in Option(Floats) :
           Parse("Float::parse", s, FloatRules_default, None, Float_parse(s))

TimeParseCustomWithFormat ==
    /\ Idle
    /\ \E s \in Option(NaiveTimes), rules \in WrapperRulesSet(BoundTimes), f \in TimeFormats :
           Parse("TimeValue::parse_custom_with_format", s, rules, f,
                 TimeValue_parse_custom_with_format(s, rules, f))
TimeParseCustom ==
    /\ Idle
    /\ \E s \in Option(NaiveTimes), rules \in WrapperRulesSet(BoundTimes) :
           Parse("TimeValue::parse_custom", s, rules, None, TimeValue_parse_custom(s, rules))
TimeParse ==
    /\ Idle
    /\ \E s \in Option(NaiveTimes) :
           Parse("TimeValue::parse", s, TimeRules_default, None, TimeValue_parse(s))
DateParseCustomWithFormat ==
    /\ Idle
    /\ \E s \in Option(NaiveDates), rules \in WrapperRulesSet(BoundDates), f \in DateFormats :
           Parse("DateValue::parse_custom_with_format", s, rules, f,
                 DateValue_parse_custom_with_format(s, rules, f))
DateParseCustom ==
    /\ Idle
    /\ \E s \in Option(NaiveDates), rules \in WrapperRulesSet(BoundDates) :
           Parse("DateValue::parse_custom", s, rules, None, DateValue_parse_custom(s, rules))
NaiveDateTimeParseCustomWithFormat ==
    /\ Idle
    /\ \E s \in Option(NaiveDateTimes), rules \in WrapperRulesSet(BoundDateTimes),
          f \in DateTimeFormats :
           Parse("NaiveDateTimeValue::parse_custom_with_format", s, rules, f,
                 NaiveDateTimeValue_parse_custom_with_format(s, rules, f))
NaiveDateTimeParseCustom ==
    /\ Idle
    /\ \E s \in Option(NaiveDateTimes), rules \in WrapperRulesSet(BoundDateTimes) :
           Parse("NaiveDateTimeValue::parse_custom", s, rules, None,
                 NaiveDateTimeValue_parse_custom(s, rules))
DateTimeParseCustom ==
    /\ Idle
    /\ \E s \in Option(DateTimes), rules \in WrapperRulesSet(BoundDateTimesTz) :
           Parse("chrono::DateTimeValue::parse_custom", s, rules, None,
                 DateTimeValue_parse_custom(s, rules))
HumanDateTimeParseCustom ==
    /\ Idle
    /\ \E s \in Option(Timestamps), rules \in WrapperRulesSet(BoundTimestamps) :
           Parse("humantime::DateTimeValue::parse_custom", s, rules, None,
                 HumanDateTimeValue_parse_custom(s, rules))

\* one parse of a wrapper that also runs an external parser: messages is the
\* collector the rules ran on, the Result may carry the parser's own error
ParseExternal(op, raw, rules, parsed) ==
    /\ pre' = ValidateErrorCollector_new
    /\ messages' = parsed.messages
    /\ result' = parsed.result
    /\ call' = [op |-> op, family |-> "parse_external", raw |-> raw, rules |-> rules]
    /\ phase' = "consumed"
    /\ UNCHANGED <<held, flags>>

EmailParseCustom ==
    /\ Idle
    /\ \E s \in Option(EmailStrings), rules \in EmailRulesSet :
           ParseExternal("Email::parse_custom", s, rules, Email_parse_custom(s, rules))
EmailParse ==
    /\ Idle
    /\ \E s \in Option(EmailStrings) :
           ParseExternal("Email::parse", s, EmailRules_default, Email_parse(s))
UrlParseCustom ==
    /\ Idle
    /\ \E s \in Option(UrlStrings), rules \in EmailRulesSet :
           ParseExternal("Url::parse_custom", s, rules, Url_parse_custom(s, rules))
UrlParse ==
    /\ Idle
    /\ \E s \in Option(UrlStrings) :
           ParseExternal("Url::parse", s, EmailRules_default, Url_parse(s))

\* one operation on a validated value: a fresh collector, at most one entry,
\* the Result
OnValue(op, family, self, arg, parsed) ==
    /\ pre' = ValidateErrorCollector_new
    /\ messages' = parsed.messages
    /\ result' = parsed.result
    /\ call' = [op |-> op, family |-> family, self |-> self, arg |-> arg]
    /\ phase' = "consumed"
    /\ UNCHANGED <<held, flags>>

EmailParseConfirm ==
    /\ Idle
    /\ \E self \in EmailValues, confirm_email \in EmailStrings :
           OnValue("Email::parse_confirm", "confirm", self, confirm_email,
                   Email_parse_confirm(self, confirm_email))
PasswordParseConfirm ==
    /\ Idle
    /\ \E self \in PasswordValues, password_confirm \in Strings :
           OnValue("Password::parse_confirm", "confirm", self, password_confirm,
                   Password_parse_confirm(self, password_confirm))

\* one check of a validated username against the is-taken service
CheckTaken(op, self, service, checked) ==
    /\ pre' = ValidateErrorCollector_new
    /\ messages' = checked.messages
    /\ result' = checked.result
    /\ call' = [op |-> op, family |-> "taken", self |-> self, service |-> service,
                calls |-> checked.calls]
    /\ phase' = "consumed"
    /\ UNCHANGED <<held, flags>>

UsernameCheckTaken ==
    /\ Idle
    /\ \E self \in UsernameValues, service \in Services :
           CheckTaken("Username::check_username_taken", self, service,
                      Username_check_username_taken(self, service))
UsernameCheckTakenAsync ==
    /\ Idle
    /\ \E self \in UsernameValues, service \in Services :
           CheckTaken("Username::check_username_taken_async", self, service,
                      Username_check_username_taken_async(self, service))

\* let mut flag = FlagCounter::new(); let mut flag = false;
FlagStart ==
    /\ Idle
    /\ flags' = Some([counter |-> FlagCounter_new, flag |-> FALSE,
                      checked |-> <<>>, flagged |-> <<>>])
    /\ call' = [op |-> "FlagCounter::new", family |-> "flag"]
    /\ result' = NoResult
    /\ pre' = <<>>
    /\ messages' = <<>>
    /\ phase' = "consumed"
    /\ UNCHANGED held

\* flag.check(result)
FlagCounterCheck ==
    /\ is_some(flags)
    /\ Len(unwrap(flags).checked) < MaxChecks
    /\ \E res \in FlagResults :
           LET f == unwrap(flags)
               out == FlagCounter_check(f.counter, res)
           IN  /\ flags' = Some([f EXCEPT !.counter = out.state,
                                          !.checked = Append(@, res)])
               /\ result' = out.result
               /\ call' = [op |-> "FlagCounter::check", family |-> "flag",
                           arg |-> res]
    /\ UNCHANGED <<messages, pre, phase, held>>

\* flag_error(&mut flag, result)
FlagError ==
    /\ is_some(flags)
    /\ Len(unwrap(flags).flagged) < MaxChecks
    /\ \E res \in FlagResults :
           LET f == unwrap(flags)
               out == flag_error(f.flag, res)
           IN  /\ flags' = Some([f EXCEPT !.flag = out.state,
                                          !.flagged = Append(@, res)])
               /\ result' = out.result
               /\ call' = [op |-> "flag_error", family |-> "flag", arg |-> res]
    /\ UNCHANGED <<messages, pre, phase, held>>

\* flag.is_flagged() and flag.get_count()
FlagCounterRead ==
    /\ is_some(flags)
    /\ result' = Ok([is_flagged |-> is_flagged(unwrap(flags).counter),
                     get_count |-> get_count(unwrap(flags).counter)])
    /\ call' = [op |-> "FlagCounter::get_count", family |-> "flag"]
    /\ UNCHANGED <<messages, pre, phase, held, flags>>

\* s.as_string_validator() and every inspection method of the validator
Inspected(v) ==
    [count_graphemes |-> count_graphemes(v),
     is_empty |-> sv_is_empty(v),
     has_special_chars |-> has_special_chars(v),
     count_special_chars |-> count_special_chars(v),
     has_ascii_uppercase |-> has_ascii_uppercase(v),
     count_ascii_uppercase |-> count_ascii_uppercase(v),
     has_ascii_lowercase |-> has_ascii_lowercase(v),
     count_ascii_lowercase |-> count_ascii_lowercase(v),
     has_ascii_uppercase_and_lowercase |-> has_ascii_uppercase_and_lowercase(v),
     count_ascii_uppercase_and_lowercase |-> count_ascii_uppercase_and_lowercase(v),
     has_ascii_digit |-> has_ascii_digit(v),
     count_ascii_digit |-> count_ascii_digit(v),
     has_ascii_alphanumeric |-> has_ascii_alphanumeric(v),
     count_ascii_alphanumeric |-> count_ascii_alphanumeric(v)]

Inspect ==
    /\ Idle
    /\ \E s \in Strings :
           /\ call' = [op |-> "StringValidator", family |-> "inspect", subject |-> s]
           /\ result' = Ok(Inspected(as_string_validator(s)))
    /\ pre' = <<>>
    /\ messages' = <<>>
    /\ phase' = "consumed"
    /\ UNCHANGED <<held, flags>>

\* one &self method of the store the caller holds
OnStore(op, value) ==
    /\ call' = [op |-> op, family |-> "store"]
    /\ result' = Ok(value)
    /\ UNCHANGED <<messages, pre, phase, held, flags>>

\* store.clone()
StoreClone ==
    /\ is_some(held)
    /\ OnStore("ValidateErrorStore::clone", ValidateErrorStore_clone(unwrap(held)))

\* store.as_original_message_vec()
StoreMessages ==
    /\ is_some(held)
    /\ OnStore("ValidateErrorStore::as_original_message_vec",
               as_original_message_vec(unwrap(held)))

\* store.as_validate_error_collector(): a collector to go on pushing to
StoreAsCollector ==
    /\ is_some(held)
    /\ phase = "consumed"
    /\ messages' = as_validate_error_collector(unwrap(held))
    /\ pre' = ValidateErrorCollector_new
    /\ call' = [op |-> "ValidateErrorStore::as_validate_error_collector",
                family |-> "restore"]
    /\ result' = NoResult
    /\ phase' = "restored"
    /\ UNCHANGED <<held, flags>>

\* a == b on two ValidateErrorStore values, each made from a collector
CompareStores ==
    /\ Idle
    /\ \E a \in StoreCollectors, b \in StoreCollectors :
           /\ call' = [op |-> "ValidateErrorStore::eq", family |-> "eq",
                       a |-> IntoStore(a), b |-> IntoStore(b)]
           /\ result' = Ok(StoreEq(IntoStore(a), IntoStore(b)))
           /\ pre' = <<>>
           /\ messages' = <<>>
           /\ phase' = "consumed"
           /\ UNCHANGED <<held, flags>>

\* a == b, a < b and a > b on two DateTimeData values
CompareData ==
    /\ Idle
    /\ \E a \in ComparedData, b \in ComparedData :
           /\ call' = [op |-> "DateTimeData::partial_cmp", family |-> "cmp",
                       a |-> a, b |-> b]
           /\ result' = Ok([eq |-> dt_eq(a, b), lt |-> dt_lt(a, b), gt |-> dt_gt(a, b)])
           /\ pre' = <<>>
           /\ messages' = <<>>
           /\ phase' = "consumed"
           /\ UNCHANGED <<held, flags>>

Next ==
    \/ New
    \/ Push
    \/ CheckStringMandatory
    \/ CheckStringLength
    \/ CheckStringSpecialChar
    \/ CheckNumberMandatory
    \/ CheckNumberRange
    \/ CheckDateTimeMandatory
    \/ CheckDateTimeRange
    \/ CheckDateTimeRangeTime
    \/ ValidateCheck
    \/ NameParseCustom
    \/ NameParse
    \/ DescriptionParseCustom
    \/ DescriptionParse
    \/ UsernameParseCustom
    \/ UsernameParse
    \/ PasswordParseCustom
    \/ PasswordParse
    \/ IntegerParseCustom
    \/ IntegerParse
    \/ UnsignedParseCustom
    \/ UnsignedParse
    \/ FloatParseCustom
    \/ FloatParse
    \/ TimeParseCustomWithFormat
    \/ TimeParseCustom
    \/ TimeParse
    \/ DateParseCustomWithFormat
    \/ DateParseCustom
    \/ NaiveDateTimeParseCustomWithFormat
    \/ NaiveDateTimeParseCustom
    \/ DateTimeParseCustom
    \/ HumanDateTimeParseCustom
    \/ EmailParseCustom
    \/ EmailParse
    \/ UrlParseCustom
    \/ UrlParse
    \/ EmailParseConfirm
    \/ PasswordParseConfirm
    \/ UsernameCheckTaken
    \/ UsernameCheckTakenAsync
    \/ FlagStart
    \/ FlagCounterCheck
    \/ FlagError
    \/ FlagCounterRead
    \/ Inspect
    \/ StoreClone
    \/ StoreMessages
    \/ StoreAsCollector
    \/ CompareStores
    \/ CompareData

Spec == Init /\ [][Next]_vars

-----------------------------------------------------------------------------
(* Properties *)

\* the entries the last operation appended, and the texts of a collector
Appended == SubSeq(messages, Len(pre) + 1, Len(messages))
Texts(collector) == [i \in 1..Len(collector) |-> collector[i].message]
Appends == Len(pre) <= Len(messages) /\ SubSeq(messages, 1, Len(pre)) = pre
IsParse == call.family = "parse"
IsOp(op) == call.op = op

\* C1: a parse with is_mandatory = true and an absent input leaves exactly
\* one message, "Cannot be empty", in the collector and returns it as the
\* error, whatever length, range or character-class rules are configured.
C1_MandatoryAbsentOneMessage ==
    (IsParse /\ call.rules.is_mandatory /\ is_none(call.raw))
        => /\ Texts(messages) = <<"Cannot be empty">>
           /\ result.tag = "Err"
           /\ as_original_message_vec(result.error.store) = <<"Cannot be empty">>

\* C1 witness: a mandatory password with length and character-class rules,
\* parsed from None
C1_Witness ==
    /\ IsOp("Password::parse_custom")
    /\ call.rules.is_mandatory /\ is_none(call.raw)
    /\ call.rules.min_length = Some(5) /\ call.rules.must_have_digit
    /\ call.rules.must_have_special_chars
    /\ Texts(messages) = <<"Cannot be empty">>

\* C2: a parse with is_mandatory = false and an absent input appends no
\* message and succeeds, whatever bounds are configured.
C2_OptionalAbsentSucceeds ==
    (IsParse /\ ~call.rules.is_mandatory /\ is_none(call.raw))
        => (messages = <<>> /\ result.tag = "Ok")

\* C2 witness: an optional name with min_length 5 parsed from None
C2_Witness ==
    /\ IsOp("Name::parse_custom")
    /\ ~call.rules.is_mandatory /\ is_none(call.raw)
    /\ call.rules.min_length = Some(5)
    /\ result.tag = "Ok"

\* the three cases of a range check with both bounds set, m <= M, on the
\* present subject s
RangeCases(m, M, s) ==
    /\ (Appended = <<>>) <=> (num_le(m, s) /\ num_le(s, M))
    /\ (Texts(Appended) = <<"Must be at least " \o num_display(m)>>) <=> num_lt(s, m)
    /\ (Texts(Appended) = <<"Must be at most " \o num_display(M)>>) <=> num_gt(s, M)

IsBoundedRangeCheck ==
    /\ IsOp("NumberRangeRules::check")
    /\ is_some(call.rules.min) /\ is_some(call.rules.max) /\ is_some(call.subject)
    /\ num_le(unwrap(call.rules.min), unwrap(call.rules.max))

IntegerParseBelowZero ==
    (IsOp("Integer::parse") /\ is_some(call.raw) /\ unwrap(call.raw).n < 0)
        => /\ result.tag = "Err"
           /\ as_original_message_vec(result.error.store) = <<"Must be at least 0">>

\* C3 as stated: with m <= M and a present subject s, NumberRangeRules.check
\* appends nothing iff m <= s <= M, only "Must be at least m" iff s < m and
\* only "Must be at most M" iff s > M; Integer::parse of a value below 0
\* fails with the one message "Must be at least 0".
C3_Original ==
    /\ IsBoundedRangeCheck
        => (Appends /\ RangeCases(unwrap(call.rules.min), unwrap(call.rules.max),
                                  unwrap(call.subject)))
    /\ IntegerParseBelowZero

\* C4: validate_check returns Ok(()) iff the collector is empty, and
\* otherwise Err with a store whose original messages are the collector's
\* messages in push order.
C4_ValidateCheck ==
    call.family = "validate"
        => /\ (result.tag = "Ok") <=> (pre = <<>>)
           /\ result.tag = "Ok" => result.value = Unit
           /\ result.tag # "Ok"
                => /\ result.tag = "Err"
                   /\ as_original_message_vec(result.error.store) = Texts(pre)

\* C4 witness: a collector of at least two different messages turned into an
\* error
C4_Witness ==
    /\ call.family = "validate"
    /\ Len(pre) >= 2 /\ pre[1].message # pre[2].message
    /\ result.tag = "Err"

\* the validated value holds the raw input as it was given
WrapsRaw ==
    IF "is_none" \in DOMAIN result.value
    THEN is_some(call.raw) => result.value.v = unwrap(call.raw)
    ELSE result.value.v = call.raw

\* C5: a parse returns Ok exactly when its collector is empty after the
\* rules have run, the Ok value holds the raw input unchanged, and a
\* non-empty collector returns only the typed error, carrying its messages.
C5_NoPartialSuccess ==
    IsParse
        => /\ (result.tag = "Ok") <=> (messages = <<>>)
           /\ result.tag = "Ok" => WrapsRaw
           /\ result.tag # "Ok"
                => /\ DOMAIN result = {"tag", "error"}
                   /\ as_original_message_vec(result.error.store) = Texts(messages)
           /\ (IsOp("Name::parse") /\ call.raw = Some(str_ValidName))
                => (result.tag = "Ok" /\ result.value.v = str_ValidName)

\* C5 witness: Name::parse(Some("ValidName")) succeeded
C5_Witness ==
    /\ IsOp("Name::parse") /\ call.raw = Some(str_ValidName)
    /\ result.tag = "Ok" /\ result.value.v = str_ValidName

CaseTexts ==
    {"Must contain at least one uppercase and lowercase letter",
     "Must contain at least one uppercase letter",
     "Must contain at least one lowercase letter"}
LacksUpper(s) == \A i \in 1..Len(s) : s[i] \notin 65..90
LacksLower(s) == \A i \in 1..Len(s) : s[i] \notin 97..122
CaseAppended == {i \in 1..Len(Appended) : Appended[i].message \in CaseTexts}

\* C6: with both case flags set, StringSpecialCharRules.check appends at
\* most one case message, always the combined one, and exactly when the
\* input lacks an ASCII uppercase or an ASCII lowercase letter.
C6_CombinedCaseMessage ==
    (IsOp("StringSpecialCharRules::check")
        /\ call.rules.must_have_uppercase /\ call.rules.must_have_lowercase)
        => /\ Appends
           /\ Cardinality(CaseAppended) <= 1
           /\ \A i \in CaseAppended :
                Appended[i].message
                    = "Must contain at least one uppercase and lowercase letter"
           /\ (CaseAppended # {}) <=> (LacksUpper(call.subject) \/ LacksLower(call.subject))

\* C6 witness: an input with neither case got the one combined message
C6_Witness ==
    /\ IsOp("StringSpecialCharRules::check")
    /\ call.rules.must_have_uppercase /\ call.rules.must_have_lowercase
    /\ LacksUpper(call.subject) /\ LacksLower(call.subject) /\ call.subject # <<>>
    /\ Cardinality(CaseAppended) = 1

\* what the length rule must append for a subject of n grapheme clusters
LengthTexts(rules, n) ==
    (IF is_some(rules.min_length) /\ n < unwrap(rules.min_length)
     THEN <<"Must be at least " \o ToString(unwrap(rules.min_length)) \o " characters">>
     ELSE <<>>)
    \o (IF is_some(rules.max_length) /\ n > unwrap(rules.max_length)
        THEN <<"Must be at most " \o ToString(unwrap(rules.max_length)) \o " characters">>
        ELSE <<>>)

\* the grapheme clusters of the sample strings, counted by hand
KnownGraphemes(s) ==
    IF s = str_five_e_acute THEN 5
    ELSE IF s = str_hello_combining THEN 5
    ELSE IF s = <<97, 769>> THEN 1
    ELSE graphemes_count(s)

\* C7: StringLengthRules.check compares the grapheme-cluster count with each
\* bound on its own: "at least" iff n < min_length, "at most" iff
\* n > max_length; a string of exactly min_length clusters passes although
\* it has more bytes.
C7_GraphemeLength ==
    IsOp("StringLengthRules::check")
        => /\ Appends
           /\ Texts(Appended) = LengthTexts(call.rules, KnownGraphemes(call.subject))

\* C7 witness: five clusters in ten bytes pass min_length 5
C7_Witness ==
    /\ IsOp("StringLengthRules::check")
    /\ call.subject = str_five_e_acute /\ byte_len(call.subject) = 10
    /\ call.rules.min_length = Some(5)
    /\ Appended = <<>>

\* C8: two stores made from collectors with the same ordered message texts
\* compare equal, also when their causes differ.
C8_StoreEqualByMessages ==
    (IsOp("ValidateErrorStore::eq")
        /\ as_original_message_vec(call.a) = as_original_message_vec(call.b))
        => result.value = TRUE

\* C8 witness: equal stores whose first causes are of different types
C8_Witness ==
    /\ IsOp("ValidateErrorStore::eq")
    /\ Len(call.a.arc) = 2
    /\ as_original_message_vec(call.a) = as_original_message_vec(call.b)
    /\ call.a.arc[1].cause.type # call.b.arc[1].cause.type
    /\ result.value = TRUE

T(h, m) == time_as_date_time_data(None, NaiveTime(h, m, 0, 0))
BeforeAppended ==
    \E i \in 1..Len(Appended) :
        Appended[i].cause.type = "DateTimeRangeLocale::MaxValue"

\* C9: check_time with an authored max before min compares the subject with
\* max moved forward by 86,400 seconds; with min 21:00 and max 06:00 the
\* subject 23:30 gets no message and 10:00 gets one, also through TimeValue.
C9_CheckTimeShiftsMax ==
    /\ (IsOp("DateTimeRangeRules::check_time")
            /\ is_some(call.rules.min) /\ is_some(call.rules.max) /\ is_some(call.subject)
            /\ dt_lt(unwrap(call.rules.max), unwrap(call.rules.min)))
        => LET s == unwrap(call.subject)
               max == unwrap(call.rules.max)
               shifted == max.timestamp_seconds_days + 86400
           IN  /\ Appends
               /\ BeforeAppended
                    <=> \/ s.timestamp_seconds_days > shifted
                        \/ /\ s.timestamp_seconds_days = shifted
                           /\ s.subsec_nano > max.subsec_nano
               /\ (call.rules.min = Some(T(21, 0)) /\ call.rules.max = Some(T(6, 0)))
                    => /\ s = T(23, 30) => messages = pre
                       /\ s = T(10, 0) => Len(messages) = Len(pre) + 1
    /\ (IsParse /\ call.op \in {"TimeValue::parse_custom",
                                 "TimeValue::parse_custom_with_format"}
            /\ call.rules.min = Some(NaiveTime(21, 0, 0, 0))
            /\ call.rules.max = Some(NaiveTime(6, 0, 0, 0)))
        => /\ call.raw = Some(NaiveTime(23, 30, 0, 0)) => result.tag = "Ok"
           /\ call.raw = Some(NaiveTime(10, 0, 0, 0)) => result.tag = "Err"

\* C9 witness: 23:30 passed the window 21:00 .. 06:00
C9_Witness ==
    /\ IsOp("DateTimeRangeRules::check_time")
    /\ call.rules.min = Some(T(21, 0)) /\ call.rules.max = Some(T(6, 0))
    /\ call.subject = Some(T(23, 30))
    /\ messages = pre

IsRangeOp ==
    call.op \in {"DateTimeRangeRules::check", "DateTimeRangeRules::check_time"}

\* C10: a date/time range message names the violated bound: after "Must be
\* before" stands the formatted max, after "Must be after" the formatted min
\* (min 09:00, max 17:00, subject 18:00: "must be before 17:00").
C10_MessageNamesBound ==
    /\ IsRangeOp
        => \A i \in 1..Len(Appended) :
            /\ Appended[i].cause.type = "DateTimeRangeLocale::MaxValue"
                => Appended[i].message
                    = "Must be before '" \o unwrap(call.rules.max).date_formatted \o "'"
            /\ Appended[i].cause.type = "DateTimeRangeLocale::MinValue"
                => Appended[i].message
                    = "Must be after '" \o unwrap(call.rules.min).date_formatted \o "'"
    /\ (IsOp("TimeValue::parse_custom_with_format")
            /\ call.format = Some(FmtTime)
            /\ call.rules = TimeRules_default
            /\ call.raw = Some(NaiveTime(18, 0, 0, 0)))
        => Texts(messages) = <<"Must be before '17:00'">>

IsTimeOfDay(data) ==
    data.kind = "Time" /\ data.timestamp_seconds_days \in 0..(ONE_DAY - 1)
dt_le(a, b) == dt_lt(a, b) \/ dt_eq(a, b)

\* C11: with an authored max before min, check_time accepts a time-of-day
\* subject iff it is at or after min or at or before max (min 21:00, max
\* 06:00: 23:30 and 03:00 pass), and through TimeValue 03:00 is Ok.
C11_WraparoundWindow ==
    /\ (IsOp("DateTimeRangeRules::check_time")
            /\ is_some(call.rules.min) /\ is_some(call.rules.max) /\ is_some(call.subject)
            /\ dt_lt(unwrap(call.rules.max), unwrap(call.rules.min))
            /\ IsTimeOfDay(unwrap(call.subject)))
        => LET s == unwrap(call.subject)
           IN  (messages = pre)
                   <=> (dt_le(unwrap(call.rules.min), s) \/ dt_le(s, unwrap(call.rules.max)))
    /\ (IsParse /\ IsOp("TimeValue::parse_custom")
            /\ call.rules.min = Some(NaiveTime(21, 0, 0, 0))
            /\ call.rules.max = Some(NaiveTime(6, 0, 0, 0))
            /\ call.raw = Some(NaiveTime(3, 0, 0, 0)))
        => result.tag = "Ok"

IsParseExternal == call.family = "parse_external"

\* C12: Email::parse_custom(None, rules) and Url::parse_custom(None, rules)
\* with is_mandatory = false return Ok with a value whose into_option() is
\* None; no error is produced.
C12_OptionalAbsentAddress ==
    (IsParseExternal /\ ~call.rules.is_mandatory /\ is_none(call.raw))
        => (result.tag = "Ok" /\ into_option(result.value) = None)

HasFlag == "is_none" \in DOMAIN result.value

\* C13: when a parse of a wrapper with an absent flag returns Ok(v),
\* v.into_option() is None exactly when the raw input was None, and Some(v)
\* otherwise.
C13_IntoOption ==
    ((IsParse \/ IsParseExternal) /\ result.tag = "Ok" /\ HasFlag)
        => /\ (into_option(result.value) = None) <=> is_none(call.raw)
           /\ is_some(call.raw) => into_option(result.value) = Some(result.value)
           /\ result.value.is_none = is_none(call.raw)

\* C13 witness: an optional Integer parsed from None is Ok and turns into None
C13_Witness ==
    /\ IsOp("Integer::parse_custom") /\ is_none(call.raw)
    /\ result.tag = "Ok" /\ into_option(result.value) = None

\* C13 second case, reached as well: an Email parsed from a present address
C13_WitnessPresent ==
    /\ IsOp("Email::parse") /\ call.raw = Some(str_test_email)
    /\ result.tag = "Ok" /\ into_option(result.value) = Some(result.value)

BothBoundTexts(rules) ==
    <<"Must be at least " \o num_display(unwrap(rules.min)),
      "Must be at most " \o num_display(unwrap(rules.max))>>

\* C14: NumberRangeRules.check runs both comparisons on their own: a present
\* subject s gets "Must be at least {min}" and then "Must be at most {max}"
\* exactly when max < s < min, which needs min > max.
C14_BothBoundsFire ==
    IsOp("NumberRangeRules::check")
        => LET rules == call.rules
               between == /\ is_some(rules.min) /\ is_some(rules.max) /\ is_some(call.subject)
                          /\ num_gt(unwrap(call.subject), unwrap(rules.max))
                          /\ num_lt(unwrap(call.subject), unwrap(rules.min))
           IN  /\ Appends
               /\ Len(Appended) <= 2
               /\ (Len(Appended) = 2) <=> between
               /\ between => /\ Texts(Appended) = BothBoundTexts(rules)
                             /\ num_gt(unwrap(rules.min), unwrap(rules.max))

\* C14 witness: min 255 and max 0 with the subject 1 between them
C14_Witness ==
    /\ IsOp("NumberRangeRules::check")
    /\ call.rules.min = Some(Num(255)) /\ call.rules.max = Some(Num(0))
    /\ call.subject = Some(Num(1))
    /\ Texts(Appended) = <<"Must be at least 255", "Must be at most 0">>

\* (timestamp_seconds_days, subsec_nano) as one number; subsec_nano < 10^9
Instant(data) == data.timestamp_seconds_days * 1000000000 + data.subsec_nano

\* C15: DateTimeData equality and ordering look only at
\* (timestamp_seconds_days, subsec_nano), the timestamp first; values that
\* differ in kind or date_formatted only are equal and neither is less.
C15_DataOrder ==
    IsOp("DateTimeData::partial_cmp")
        => /\ result.value.eq <=> (Instant(call.a) = Instant(call.b))
           /\ result.value.lt <=> (Instant(call.a) < Instant(call.b))
           /\ result.value.gt <=> (Instant(call.a) > Instant(call.b))
           /\ (call.a.timestamp_seconds_days = call.b.timestamp_seconds_days
                   /\ call.a.subsec_nano = call.b.subsec_nano)
                => (result.value.eq /\ ~result.value.lt /\ ~result.value.gt)

\* C15 witness: equal (primary, subsecond), different kind and date_formatted
C15_Witness ==
    /\ IsOp("DateTimeData::partial_cmp")
    /\ call.a.kind # call.b.kind /\ call.a.date_formatted # call.b.date_formatted
    /\ Instant(call.a) = Instant(call.b)
    /\ result.value.eq /\ ~result.value.lt /\ ~result.value.gt

DoesNotMatchText ==
    IF IsOp("Email::parse_confirm") THEN "Email does not match"
    ELSE "Password does not match"

\* C16: Email::parse_confirm and Password::parse_confirm return Ok with a
\* value equal to self iff the confirmation equals the stored string, and
\* otherwise an error with the one message "Email does not match" /
\* "Password does not match" from a fresh collector.
C16_ParseConfirm ==
    call.family = "confirm"
        => /\ (result.tag = "Ok") <=> (call.arg = call.self.v)
           /\ result.tag = "Ok" => (result.value = call.self /\ messages = <<>>)
           /\ result.tag # "Ok"
                => /\ result.tag = "Err"
                   /\ pre = <<>>
                   /\ Texts(messages) = <<DoesNotMatchText>>
                   /\ as_original_message_vec(result.error.store) = <<DoesNotMatchText>>
           /\ (IsOp("Email::parse_confirm") /\ call.self.v = str_test_email
                   /\ call.arg = str_test_email)
                => result.tag = "Ok"

\* C16 witness: a parsed "test@example.com" confirmed with "test" fails
C16_Witness ==
    /\ IsOp("Email::parse_confirm")
    /\ call.self.v = str_test_email /\ ~call.self.is_none /\ call.arg = str_test
    /\ result.tag = "Err"

\* C16 second case, reached as well: a password confirmed with itself
C16_WitnessMatch ==
    /\ IsOp("Password::parse_confirm")
    /\ call.self.v = str_Hello1At /\ call.arg = str_Hello1At
    /\ result.tag = "Ok" /\ result.value = call.self

\* C17: check_username_taken and check_username_taken_async call the service
\* once, with the username string, and return Err with the one message
\* "Already taken" iff it answered true, otherwise Ok with a value equal to
\* self; the outcome is fixed by self and the answer, so both variants agree.
C17_UsernameTaken ==
    call.family = "taken"
        => LET answer == call.self.v = call.service.taken
           IN  /\ call.calls = <<call.self.v>>
               /\ (result.tag = "Err") <=> answer
               /\ answer => /\ Texts(messages) = <<"Already taken">>
                            /\ as_original_message_vec(result.error.store)
                                   = <<"Already taken">>
               /\ ~answer => (result = Ok(call.self) /\ messages = <<>>)

\* C17 witness: the username "taken" checked against the service that has it
C17_Witness ==
    /\ IsOp("Username::check_username_taken_async")
    /\ call.self.v = str_taken /\ call.service.taken = str_taken
    /\ result.tag = "Err"

\* C17 second case, reached as well: "not_taken" passes the sync check
C17_WitnessFree ==
    /\ IsOp("Username::check_username_taken")
    /\ call.self.v = str_not_taken /\ call.service.taken = str_taken
    /\ result = Ok(call.self)

InvalidText == IF call.op \in {"Email::parse_custom", "Email::parse"}
               THEN "Invalid Email" ELSE "Invalid URL"

\* C18: when the address / URL parser rejects a string that passed the
\* mandatory rule, Email / Url parse_custom return an error with the one
\* message "Invalid Email" / "Invalid URL"; an error holds either that or the
\* rule's "Cannot be empty", never both (Email::parse(Some("test")) fails).
C18_ParserFailure ==
    (IsParseExternal /\ result.tag = "Err")
        => LET texts == as_original_message_vec(result.error.store)
           IN  /\ messages = <<>> => texts = <<InvalidText>>
               /\ messages # <<>> => (texts = <<"Cannot be empty">> /\ texts = Texts(messages))
               /\ ~({"Cannot be empty", InvalidText}
                        \subseteq {texts[i] : i \in 1..Len(texts)})
               /\ call.raw = Some(str_test) => texts = <<InvalidText>>

\* C18 witness: Email::parse(Some("test")) is rejected by the parser only
C18_Witness ==
    /\ IsOp("Email::parse") /\ call.raw = Some(str_test)
    /\ messages = <<>>
    /\ result.tag = "Err"
    /\ as_original_message_vec(result.error.store) = <<"Invalid Email">>

LacksDigit(s) == \A i \in 1..Len(s) : s[i] \notin 48..57
LacksSpecial(s) == \A i \in 1..Len(s) : s[i] \notin SPECIAL_CHARS
When(cond, text) == IF cond THEN <<text>> ELSE <<>>

\* the character-class messages a password must get, in the order special
\* character, case, digit
CharClassTexts(rules, s) ==
    When(rules.must_have_special_chars /\ LacksSpecial(s),
         "Must contain at least one special character")
    \o (IF rules.must_have_uppercase /\ rules.must_have_lowercase
        THEN When(LacksUpper(s) \/ LacksLower(s),
                  "Must contain at least one uppercase and lowercase letter")
        ELSE When(rules.must_have_uppercase /\ LacksUpper(s),
                  "Must contain at least one uppercase letter")
             \o When(rules.must_have_lowercase /\ LacksLower(s),
                     "Must contain at least one lowercase letter"))
    \o When(rules.must_have_digit /\ LacksDigit(s), "Must contain at least one digit")

\* C19: for a present password that passed the mandatory rule, every violated
\* rule reports: the length messages first, then special character, case and
\* digit, none of them suppressing another.
C19_PasswordAccumulates ==
    (call.op \in {"Password::parse_custom", "Password::parse"}
        /\ is_some(call.raw)
        /\ ~(call.rules.is_mandatory /\ unwrap(call.raw) = <<>>))
        => LET s == unwrap(call.raw)
               texts == LengthTexts(call.rules, KnownGraphemes(s))
                            \o CharClassTexts(call.rules, s)
           IN  /\ Texts(messages) = texts
               /\ texts # <<>>
                    => /\ result.tag = "Err"
                       /\ as_original_message_vec(result.error.store) = texts

\* C19 witness: "a" under the default rules is too short and lacks a special
\* character, an uppercase letter and a digit
C19_Witness ==
    /\ IsOp("Password::parse") /\ call.raw = Some(<<97>>)
    /\ Texts(messages) = <<"Must be at least 8 characters",
                           "Must contain at least one special character",
                           "Must contain at least one uppercase and lowercase letter",
                           "Must contain at least one digit">>

\* a calendar date as one number that orders like the calendar
DayNumber(date) == date.year * 10000 + date.month * 100 + date.day

\* C20: DateValue::parse_custom with min = m and max = M, m <= M, accepts a
\* present date d iff m <= d <= M; a date before m gets the single message
\* 'Must be after', a date after M the single message 'Must be before'.
C20_DateRange ==
    (call.op \in {"DateValue::parse_custom", "DateValue::parse_custom_with_format"}
        /\ is_some(call.rules.min) /\ is_some(call.rules.max) /\ is_some(call.raw)
        /\ DayNumber(unwrap(call.rules.min)) <= DayNumber(unwrap(call.rules.max)))
        => LET d == DayNumber(unwrap(call.raw))
               m == DayNumber(unwrap(call.rules.min))
               M == DayNumber(unwrap(call.rules.max))
           IN  /\ (result.tag = "Ok") <=> (m <= d /\ d <= M)
               /\ d < m => /\ Len(messages) = 1
                           /\ messages[1].cause.type = "DateTimeRangeLocale::MinValue"
               /\ d > M => /\ Len(messages) = 1
                           /\ messages[1].cause.type = "DateTimeRangeLocale::MaxValue"

IsPrefix(s, t) == Len(s) <= Len(t) /\ SubSeq(t, 1, Len(s)) = s

\* C21: a collector only grows at its end: a push makes it exactly one entry
\* longer and that entry is the last one, a rule check leaves every entry it
\* found in place and in order (adding its own, if any, behind them), and
\* is_empty holds exactly when len is 0.
C21_AppendOnly ==
    [][/\ call'.family = "push" =>
            /\ len(messages') = len(messages) + 1
            /\ messages' = messages \o <<call'.error>>
       /\ call'.family = "rule" => IsPrefix(messages, messages')
       /\ is_empty(messages') <=> len(messages') = 0]_vars
C21_Witness ==
    /\ call.family = "push"
    /\ ~is_empty(pre)
    /\ messages = pre \o <<call.error>>

\* C22: the store made from a collector lists the collector's messages in
\* the order they were pushed; no later operation (cloning it, reading it,
\* turning it back into a collector, pushing to that collector) changes the
\* store; and a clone is equal to the original and lists the same messages.
C22_StoreFrozen ==
    [][/\ (call'.family = "validate" /\ result'.tag = "Err") =>
            as_original_message_vec(result'.error.store) = Texts(messages)
       /\ (is_some(held) /\ call'.family \notin {"new", "validate"}) =>
            held' = held
       /\ call'.op = "ValidateErrorStore::as_original_message_vec" =>
            result'.value = as_original_message_vec(unwrap(held))
       /\ call'.op = "ValidateErrorStore::clone" =>
            /\ StoreEq(result'.value, unwrap(held))
            /\ as_original_message_vec(result'.value)
                   = as_original_message_vec(unwrap(held))]_vars
C22_Witness ==
    /\ call.op = "ValidateErrorStore::clone"
    /\ len(unwrap(held).arc) >= 2
    /\ unwrap(held).arc[1].message # unwrap(held).arc[2].message
    /\ as_original_message_vec(result.value) = Texts(messages)
C22_WitnessPushAfter ==
    /\ call.family = "push"
    /\ phase = "restored"
    /\ len(messages) > len(unwrap(held).arc)

\* place of a character-class message in the fixed order
ClassRank(text) ==
    CASE text = "Must contain at least one special character" -> 1
      [] text \in CaseTexts -> 2
      [] text = "Must contain at least one digit" -> 3
      [] OTHER -> 0
HasAppended(text) == \E i \in 1..Len(Appended) : Appended[i].message = text

\* C23: StringSpecialCharRules.check appends at most three messages, in the
\* order special characters, case, digit; the special-character message is
\* there exactly when its flag is set and the input has no special
\* character, the digit message exactly when its flag is set and the input
\* has no digit, whatever the other checks found.
C23_SpecialCharOrder ==
    IsOp("StringSpecialCharRules::check")
        => /\ Appends
           /\ Len(Appended) <= 3
           /\ \A i \in 1..Len(Appended) : ClassRank(Appended[i].message) > 0
           /\ \A i, j \in 1..Len(Appended) :
                  i < j => ClassRank(Appended[i].message)
                               < ClassRank(Appended[j].message)
           /\ HasAppended("Must contain at least one special character")
                  <=> (call.rules.must_have_special_chars
                           /\ LacksSpecial(call.subject))
           /\ HasAppended("Must contain at least one digit")
                  <=> (call.rules.must_have_digit /\ LacksDigit(call.subject))
C23_Witness ==
    /\ IsOp("StringSpecialCharRules::check")
    /\ Len(Appended) = 3
    /\ ~is_empty(pre)

\* the entries a range check against the bounds as written has to append
AuthoredRangeEntries(rules, subject) ==
    IF is_none(subject) THEN <<>>
    ELSE LET s == unwrap(subject)
         IN  (IF is_some(rules.min) /\ dt_lt(s, unwrap(rules.min))
              THEN <<Error(must_be_after(s),
                           Cause("DateTimeRangeLocale::MinValue", rules.min))>>
              ELSE <<>>)
             \o (IF is_some(rules.max) /\ dt_gt(s, unwrap(rules.max))
                 THEN <<Error(must_be_before(s),
                              Cause("DateTimeRangeLocale::MaxValue", rules.max))>>
                 ELSE <<>>)
MaxNotBeforeMin(rules) ==
    is_none(rules.min) \/ is_none(rules.max)
        \/ dt_le(unwrap(rules.min), unwrap(rules.max))

\* C24: DateTimeRangeRules.check compares with the bounds as written, also
\* when max lies before min; check_time leaves the collector exactly as
\* check would whenever min is absent, max is absent or max is not before
\* min.
C24_ShiftOnlyInCheckTime ==
    /\ IsOp("DateTimeRangeRules::check")
           => /\ Appends
              /\ Appended = AuthoredRangeEntries(call.rules, call.subject)
    /\ (IsOp("DateTimeRangeRules::check_time") /\ MaxNotBeforeMin(call.rules))
           => /\ messages = DateTimeRangeRules_check(call.rules, pre, call.subject)
              /\ Appended = AuthoredRangeEntries(call.rules, call.subject)
C24_Witness ==
    /\ IsOp("DateTimeRangeRules::check")
    /\ ~MaxNotBeforeMin(call.rules)
    /\ Len(Appended) = 2
C24_WitnessCheckTime ==
    /\ IsOp("DateTimeRangeRules::check_time")
    /\ is_some(call.rules.min) /\ is_some(call.rules.max)
    /\ MaxNotBeforeMin(call.rules)
    /\ Len(Appended) = 1
    /\ Appended[1].cause.type = "DateTimeRangeLocale::MaxValue"

C25_WitnessDateTime ==
    /\ IsOp("DateTimeRangeRules::check")
    /\ is_none(call.subject)
    /\ is_some(call.rules.min)
    /\ dt_lt(DateTimeData_default, unwrap(call.rules.min))
    /\ messages = pre

IsInspect == call.family = "inspect"
HasIffCounted(has, count) == has <=> count > 0

\* C26 as stated: for every character class, the combined
\* uppercase-and-lowercase one included, has_X() is true iff count_X() > 0,
\* and is_empty() is true iff count_graphemes() is 0.
C26_Original ==
    IsInspect
        => LET r == result.value
           IN  /\ HasIffCounted(r.has_special_chars, r.count_special_chars)
               /\ HasIffCounted(r.has_ascii_uppercase, r.count_ascii_uppercase)
               /\ HasIffCounted(r.has_ascii_lowercase, r.count_ascii_lowercase)
               /\ HasIffCounted(r.has_ascii_uppercase_and_lowercase,
                                r.count_ascii_uppercase_and_lowercase)
               /\ HasIffCounted(r.has_ascii_digit, r.count_ascii_digit)
               /\ HasIffCounted(r.has_ascii_alphanumeric, r.count_ascii_alphanumeric)
               /\ r.is_empty <=> r.count_graphemes = 0

\* C26: has_X() is true iff count_X() > 0 for special characters, ASCII
\* uppercase, ASCII lowercase, digit and alphanumeric, and is_empty() is true
\* iff count_graphemes() is 0; count_ascii_uppercase_and_lowercase() is the
\* sum of the uppercase and the lowercase count, so it is above 0 iff either
\* case occurs, while has_ascii_uppercase_and_lowercase() needs both.
C26_HasIffCount ==
    IsInspect
        => LET r == result.value
           IN  /\ HasIffCounted(r.has_special_chars, r.count_special_chars)
               /\ HasIffCounted(r.has_ascii_uppercase, r.count_ascii_uppercase)
               /\ HasIffCounted(r.has_ascii_lowercase, r.count_ascii_lowercase)
               /\ HasIffCounted(r.has_ascii_digit, r.count_ascii_digit)
               /\ HasIffCounted(r.has_ascii_alphanumeric, r.count_ascii_alphanumeric)
               /\ r.is_empty <=> r.count_graphemes = 0
               /\ r.count_ascii_uppercase_and_lowercase
                      = r.count_ascii_uppercase + r.count_ascii_lowercase
               /\ r.has_ascii_uppercase_and_lowercase
                      <=> (r.count_ascii_uppercase > 0 /\ r.count_ascii_lowercase > 0)
C26_Witness ==
    /\ IsInspect
    /\ ~result.value.has_ascii_uppercase_and_lowercase
    /\ result.value.count_ascii_uppercase_and_lowercase > 0

\* C27: two stores compare equal only if their ordered lists of original
\* messages are the same list: stores that differ in the number of messages
\* or in where one message ends and the next begins (["ab", "c"] and
\* ["a", "bc"], or one empty message and no message at all) are unequal.
C27_EqualOnlySameMessages ==
    (IsOp("ValidateErrorStore::eq") /\ result.value = TRUE)
        => as_original_message_vec(call.a) = as_original_message_vec(call.b)

IsStringParse ==
    call.op \in {"Name::parse_custom", "Description::parse_custom",
                 "Username::parse_custom", "Password::parse_custom"}
HasText(collector, text) == \E i \in 1..Len(collector) : collector[i].message = text

\* C28: with is_mandatory = false only None counts as absent for the string
\* wrappers: Some("") still goes through the length rule, so a min_length
\* of 1 or more fails it with "Must be at least <min> characters"; and when
\* Some("") does validate, into_option() gives Some, not None.
C28_EmptyIsPresent ==
    (IsStringParse /\ ~call.rules.is_mandatory /\ call.raw = Some(<<>>))
        => /\ (is_some(call.rules.min_length) /\ unwrap(call.rules.min_length) >= 1)
                  => /\ result.tag = "Err"
                     /\ HasText(messages,
                                "Must be at least "
                                    \o ToString(unwrap(call.rules.min_length))
                                    \o " characters")
                     /\ as_original_message_vec(result.error.store) = Texts(messages)
           /\ result.tag = "Ok"
                  => /\ ~result.value.is_none
                     /\ into_option(result.value) = Some(result.value)
                     /\ result.value.v = <<>>
C28_Witness ==
    /\ IsOp("Name::parse_custom")
    /\ ~call.rules.is_mandatory /\ call.raw = Some(<<>>)
    /\ call.rules.min_length = Some(1)
    /\ Texts(messages) = <<"Must be at least 1 characters">>
C28_WitnessValid ==
    /\ IsOp("Name::parse_custom")
    /\ ~call.rules.is_mandatory /\ call.raw = Some(<<>>)
    /\ result.tag = "Ok"
    /\ is_some(into_option(result.value))

\* a time-of-day subject checked by check_time against a max before min
IsWrappedTimeCheck ==
    /\ IsOp("DateTimeRangeRules::check_time")
    /\ is_some(call.subject) /\ IsTimeOfDay(unwrap(call.subject))
    /\ is_some(call.rules.min) /\ is_some(call.rules.max)
    /\ dt_lt(unwrap(call.rules.max), unwrap(call.rules.min))
OnlyMinMessage ==
    /\ Appends
    /\ Len(Appended) <= 1
    /\ \A i \in 1..Len(Appended) :
           /\ Appended[i].cause.type = "DateTimeRangeLocale::MinValue"
           /\ Appended[i].message = must_be_after(unwrap(call.subject))

ErrCount(passed) == Cardinality({i \in 1..Len(passed) : passed[i].tag = "Err"})

\* C30: a FlagCounter made by new() always shows as get_count() the number
\* of Err results passed to check so far: a check of an Err adds one, a
\* check of an Ok adds nothing, the count never goes down; is_flagged() is
\* true iff the count is above 0; every check returns the Result it was
\* passed.  The flag of flag_error is true iff an Err has been passed, and
\* once true stays true.
C30_FlagCounter ==
    [][is_some(flags') =>
         LET f == unwrap(flags')
         IN  /\ get_count(f.counter) = ErrCount(f.checked)
             /\ is_flagged(f.counter) <=> ErrCount(f.checked) > 0
             /\ f.flag <=> ErrCount(f.flagged) > 0
             /\ call'.op \in {"FlagCounter::check", "flag_error"}
                    => result' = call'.arg
             /\ call'.op = "FlagCounter::get_count"
                    => /\ result'.value.get_count = ErrCount(f.checked)
                       /\ result'.value.is_flagged <=> ErrCount(f.checked) > 0
             /\ is_some(flags)
                    => /\ get_count(f.counter) >= get_count(unwrap(flags).counter)
                       /\ unwrap(flags).flag => f.flag
                       /\ (call'.op = "FlagCounter::check" /\ call'.arg.tag = "Ok")
                              => f.counter = unwrap(flags).counter]_vars
C30_Witness ==
    /\ IsOp("FlagCounter::check")
    /\ call.arg.tag = "Ok"
    /\ Len(unwrap(flags).checked) = 3
    /\ get_count(unwrap(flags).counter) = 2
    /\ unwrap(flags).flag

====
